---- MODULE Spec2Model ----
(***************************************************************************)
(* Touchpad gesture recognizer of cosmic-pie-menu (src/src/gesture.rs):    *)
(* the multitouch tracker, the gesture state machine (process_event), the  *)
(* pending-trigger check of the gesture loop, and the direction            *)
(* classification.                                                         *)
(***************************************************************************)
EXTENDS Integers, Sequences, FiniteSets, TLC

(***************************************************************************)
(* Program constants.                                                      *)
(***************************************************************************)
\* gesture.rs:28  const MAX_SLOTS: usize = 10
MAX_SLOTS == 10

\* gesture.rs:305  PENDING_TRIGGER_DEBOUNCE = Duration::from_millis(150)
PENDING_TRIGGER_DEBOUNCE == 150

(***************************************************************************)
(* Bounds of the model.                                                    *)
(***************************************************************************)
\* Milliseconds that pass in one step of the clock.
TickMs == 100

\* Number of clock steps after which elapsed time stops being counted.
MaxTicks == 2

\* Largest |dx|, |dy| given to the direction classifier on its own.
MaxDelta == 4

\* Largest scale factor k of the scaling relation.
MaxScale == 3

\* Number of try_capture_start calls counted on a latched tracker.
MaxCalls == 2

(***************************************************************************)
(* Option<T>: None is the empty sequence, Some(v) the one-element sequence. *)
(***************************************************************************)
None == << >>

Some(v) == << v >>

is_none(o) == o = None

is_some(o) == o # None

unwrap(o) == o[1]

Abs(n) == IF n < 0 THEN -n ELSE n

Max2(a, b) == IF a >= b THEN a ELSE b

\* Rust integer division truncates toward zero (TLA+ \div floors).
TruncDiv(a, b) == IF a >= 0 THEN a \div b ELSE -((-a) \div b)

\* The ends of the i32 range.
I32_MAX == 2147483647

I32_MIN == (-I32_MAX) - 1

\* i32::abs without overflow checks (a release build): i32::MIN wraps to itself.
abs_i32(x) == IF x = I32_MIN THEN I32_MIN ELSE Abs(x)

\* `(val as usize) < n` for an i32 val and a small n: a negative val converts
\* to 2^64 + val, which is above every n the code compares with.
as_usize_below(val, n) == val >= 0 /\ val < n

SlotIndex == 0 .. (MAX_SLOTS - 1)

(***************************************************************************)
(* TouchSlot and MultiTouchTracker.                                        *)
(***************************************************************************)
TouchSlotDefault ==
    [active |-> FALSE, x |-> 0, y |-> 0, start_x |-> None, start_y |-> None]

\* A tracker that always asks for three fingers, as MultiTouchTracker::default does.
NewTrackerDefault(min_fingers) ==
    [current_slot          |-> 0,
     slots                 |-> [i \in SlotIndex |-> TouchSlotDefault],
     start_captured        |-> FALSE,
     first_event_time      |-> None,
     min_fingers_for_start |-> 3]

\* MultiTouchTracker::new(min_fingers)
NewTracker(min_fingers) ==
    [current_slot          |-> 0,
     slots                 |-> [i \in SlotIndex |-> TouchSlotDefault],
     start_captured        |-> FALSE,
     first_event_time      |-> None,
     min_fingers_for_start |-> min_fingers]

\* Slots that enter the movement statistics: active, with both start coordinates.
HasStart(s) == s.active /\ is_some(s.start_x) /\ is_some(s.start_y)

fingers_with_start(t) == Cardinality({i \in SlotIndex : HasStart(t.slots[i])})

\* mark_event: the first position event of a cycle records Instant::now().
\* No code reads the recorded Instant, only whether one is there.
mark_event(t) ==
    IF is_none(t.first_event_time)
    THEN [t EXCEPT !.first_event_time = Some("Instant")]
    ELSE t

\* A capture that counts the fingers again on every call.
try_capture_recounting(t) ==
    [t EXCEPT !.start_captured = (fingers_with_start(t) >= t.min_fingers_for_start)]

\* A capture that is content with one finger.
try_capture_start_at_first(t) ==
    IF t.start_captured
    THEN t
    ELSE IF fingers_with_start(t) >= 1
         THEN [t EXCEPT !.start_captured = TRUE]
         ELSE t

try_capture_start(t) ==
    IF t.start_captured
    THEN t
    ELSE IF fingers_with_start(t) >= t.min_fingers_for_start
         THEN [t EXCEPT !.start_captured = TRUE]
         ELSE t

RECURSIVE SumOver(_, _, _)
\* Sum of f[i] over the slots i in S, in slot order.
SumOver(S, f, i) ==
    IF i >= MAX_SLOTS THEN 0
    ELSE (IF i \in S THEN f[i] ELSE 0) + SumOver(S, f, i + 1)

\* An average that rounds down instead of toward zero.
average_movement_floored(t) ==
    LET S     == {i \in SlotIndex : HasStart(t.slots[i])}
        dxs   == [i \in SlotIndex |->
                    IF i \in S THEN t.slots[i].x - unwrap(t.slots[i].start_x) ELSE 0]
        dys   == [i \in SlotIndex |->
                    IF i \in S THEN t.slots[i].y - unwrap(t.slots[i].start_y) ELSE 0]
        count == Cardinality(S)
    IN  IF count = 0
        THEN [dx |-> 0, dy |-> 0]
        ELSE [dx |-> SumOver(S, dxs, 0) \div count,
              dy |-> SumOver(S, dys, 0) \div count]

average_movement(t) ==
    LET S     == {i \in SlotIndex : HasStart(t.slots[i])}
        dxs   == [i \in SlotIndex |->
                    IF i \in S THEN t.slots[i].x - unwrap(t.slots[i].start_x) ELSE 0]
        dys   == [i \in SlotIndex |->
                    IF i \in S THEN t.slots[i].y - unwrap(t.slots[i].start_y) ELSE 0]
        count == Cardinality(S)
    IN  IF count = 0
        THEN [dx |-> 0, dy |-> 0]
        ELSE [dx |-> TruncDiv(SumOver(S, dxs, 0), count),
              dy |-> TruncDiv(SumOver(S, dys, 0), count)]

RECURSIVE MaxFrom(_, _, _)
\* The running maximum of max_movement_from_start, slot by slot.
MaxFrom(t, i, max) ==
    IF i >= MAX_SLOTS THEN max
    ELSE LET s == t.slots[i]
         IN  IF HasStart(s)
             THEN MaxFrom(t, i + 1,
                          Max2(Max2(max, abs_i32(s.x - unwrap(s.start_x))),
                               abs_i32(s.y - unwrap(s.start_y))))
             ELSE MaxFrom(t, i + 1, max)

max_movement_from_start(t) == MaxFrom(t, 0, 0)

(***************************************************************************)
(* Direction classification.                                               *)
(***************************************************************************)
SwipeDirection == {"Up", "Down", "Left", "Right"}

\* A classifier that takes horizontal movements of at most two units for
\* vertical ones.
classify_small_as_vertical(dx, dy) ==
    IF abs_i32(dx) > abs_i32(dy) /\ abs_i32(dx) > 2
    THEN (IF dx > 0 THEN "Right" ELSE "Left")
    ELSE (IF dy > 0 THEN "Down" ELSE "Up")

calculate_swipe_direction_from_delta(dx, dy) ==
    IF abs_i32(dx) > abs_i32(dy)
    THEN (IF dx > 0 THEN "Right" ELSE "Left")
    ELSE (IF dy > 0 THEN "Down" ELSE "Up")

\* An early swipe check that asks for movement strictly above the threshold.
check_early_swipe_above(t, threshold) ==
    LET avg      == average_movement(t)
        movement == Max2(abs_i32(avg.dx), abs_i32(avg.dy))
    IN  IF movement > threshold
        THEN Some(calculate_swipe_direction_from_delta(avg.dx, avg.dy))
        ELSE None

\* check_early_swipe: Some(direction) when the average movement reaches the threshold.
check_early_swipe(t, threshold) ==
    LET avg      == average_movement(t)
        movement == Max2(abs_i32(avg.dx), abs_i32(avg.dy))
    IN  IF movement >= threshold
        THEN Some(calculate_swipe_direction_from_delta(avg.dx, avg.dy))
        ELSE None

(***************************************************************************)
(* GestureState, GestureEvent and the input events.                        *)
(*                                                                         *)
(* An Instant held by the state (start, pending_since) is modelled by the  *)
(* time elapsed since it was taken: the clock `elapsed` of the model is    *)
(* start.elapsed() in FingersDown and pending_since.elapsed() in           *)
(* PendingTrigger, and restarts whenever process_event stores              *)
(* Instant::now() in the state.                                            *)
(***************************************************************************)
Idle == [tag |-> "Idle"]

FingersDown(tracker) == [tag |-> "FingersDown", tracker |-> tracker]

PendingTrigger == [tag |-> "PendingTrigger"]

EvNone == << "None" >>

EvFingersDown == << "FingersDown" >>

EvFingersUp == << "FingersUp" >>

EvTriggerCancelled == << "TriggerCancelled" >>

SwipeDetected(direction) == << "SwipeDetected", direction >>

IsSwipe(ev) == ev[1] = "SwipeDetected"

\* An evdev input event: its kind (Key, AbsAxis or another type), code and value.
KeyEvent(key, value) == [kind |-> "Key", code |-> key, value |-> value]

AbsEvent(axis, value) == [kind |-> "AbsAxis", code |-> axis, value |-> value]

OtherEvent == [kind |-> "Synchronization", code |-> "SYN_REPORT", value |-> 0]

\* tap_key and cancel_key of process_event.
tap_key(finger_count) ==
    IF finger_count = 3 THEN "BTN_TOOL_TRIPLETAP" ELSE "BTN_TOOL_QUADTAP"

\* A cancel key in both modes: the tool key of the other finger count.
cancel_key_either(finger_count) ==
    IF finger_count = 3 THEN Some("BTN_TOOL_QUADTAP") ELSE Some("BTN_TOOL_TRIPLETAP")

cancel_key(finger_count) ==
    IF finger_count = 3 THEN Some("BTN_TOOL_QUADTAP") ELSE None

(***************************************************************************)
(* process_event.  Each helper returns what the function leaves behind:    *)
(* the new state, the GestureEvent returned, and whether the new state     *)
(* holds a fresh Instant::now() (the clock restarts).                      *)
(***************************************************************************)
Result(state, ev) == [state |-> state, ev |-> ev, stamped |-> FALSE]

Stamped(state, ev) == [state |-> state, ev |-> ev, stamped |-> TRUE]

\* A release that asks for movement strictly below tap_max_movement.
release_fingers_strict(st, cfg, duration) ==
    LET max_movement == max_movement_from_start(st.tracker)
    IN  IF duration <= cfg.tap_max_duration /\ max_movement < cfg.tap_max_movement
        THEN IF cfg.finger_count = 3
             THEN Stamped(PendingTrigger, EvNone)
             ELSE Result(Idle, EvFingersUp)
        ELSE LET avg == average_movement(st.tracker)
             IN  Result(Idle,
                        SwipeDetected(calculate_swipe_direction_from_delta(avg.dx, avg.dy)))

\* A release that looks at the duration alone.
release_fingers_by_duration(st, cfg, duration) ==
    IF duration <= cfg.tap_max_duration
    THEN IF cfg.finger_count = 3
         THEN Stamped(PendingTrigger, EvNone)
         ELSE Result(Idle, EvFingersUp)
    ELSE LET avg == average_movement(st.tracker)
         IN  Result(Idle,
                    SwipeDetected(calculate_swipe_direction_from_delta(avg.dx, avg.dy)))

\* A release that looks at the movement alone.
release_fingers_by_movement(st, cfg, duration) ==
    IF max_movement_from_start(st.tracker) <= cfg.tap_max_movement
    THEN IF cfg.finger_count = 3
         THEN Stamped(PendingTrigger, EvNone)
         ELSE Result(Idle, EvFingersUp)
    ELSE LET avg == average_movement(st.tracker)
         IN  Result(Idle,
                    SwipeDetected(calculate_swipe_direction_from_delta(avg.dx, avg.dy)))

\* The tap-key arm, value 0, in FingersDown: tap or swipe at finger lift.
\* duration is start.elapsed().
release_fingers(st, cfg, duration) ==
    LET max_movement == max_movement_from_start(st.tracker)
    IN  IF duration <= cfg.tap_max_duration /\ max_movement <= cfg.tap_max_movement
        THEN IF cfg.finger_count = 3
             THEN Stamped(PendingTrigger, EvNone)
             ELSE Result(Idle, EvFingersUp)
        ELSE LET avg == average_movement(st.tracker)
             IN  Result(Idle,
                        SwipeDetected(calculate_swipe_direction_from_delta(avg.dx, avg.dy)))

\* A slot selection that takes any value.
select_slot_unchecked(t, val) == [t EXCEPT !.current_slot = val]

\* The ABS_MT_SLOT arm.
select_slot(t, val) ==
    IF as_usize_below(val, MAX_SLOTS) THEN [t EXCEPT !.current_slot = val] ELSE t

\* A tracking id arm that forgets the start of a finger that lifts.
set_tracking_id_clearing(t, val) ==
    LET slot == t.current_slot
    IN  IF slot < MAX_SLOTS
        THEN IF val >= 0
             THEN [t EXCEPT !.slots[slot].active = TRUE]
             ELSE [t EXCEPT !.slots[slot].active = FALSE,
                            !.slots[slot].start_x = None,
                            !.slots[slot].start_y = None]
        ELSE t

\* A tracking id arm in which a finger that lifts undoes the capture.
set_tracking_id_unlatching(t, val) ==
    LET slot == t.current_slot
    IN  IF slot < MAX_SLOTS
        THEN [t EXCEPT !.slots[slot].active = (val >= 0),
                       !.start_captured = IF val >= 0 THEN @ ELSE FALSE]
        ELSE t

\* The ABS_MT_TRACKING_ID arm.
set_tracking_id(t, val) ==
    LET slot == t.current_slot
    IN  IF slot < MAX_SLOTS
        THEN [t EXCEPT !.slots[slot].active = (val >= 0)]
        ELSE t

\* The slot writes of a position arm on axis "x" or "y".
write_position(t, slot, axis, val) ==
    IF axis = "x"
    THEN [t EXCEPT !.slots[slot].start_x =
                        IF is_none(@) THEN Some(val) ELSE @,
                   !.slots[slot].x = val,
                   !.slots[slot].active = TRUE]
    ELSE [t EXCEPT !.slots[slot].start_y =
                        IF is_none(@) THEN Some(val) ELSE @,
                   !.slots[slot].y = val,
                   !.slots[slot].active = TRUE]

\* What a position arm does to the tracker: the writes, mark_event and
\* try_capture_start.
track_position(t, slot, axis, val) ==
    try_capture_start(mark_event(write_position(t, slot, axis, val)))

\* A position arm that returns the early swipe and stays in FingersDown.
record_position_staying(st, slot, axis, val, cfg) ==
    LET t == track_position(st.tracker, slot, axis, val)
        early == IF t.start_captured
                 THEN check_early_swipe(t, cfg.swipe_threshold)
                 ELSE None
    IN  IF is_some(early)
        THEN Result([st EXCEPT !.tracker = t], SwipeDetected(unwrap(early)))
        ELSE Result([st EXCEPT !.tracker = t], EvNone)

\* A position arm that checks for an early swipe without waiting for
\* start_captured.
record_position_unlatched(st, slot, axis, val, cfg) ==
    LET t == track_position(st.tracker, slot, axis, val)
        early == check_early_swipe(t, cfg.swipe_threshold)
    IN  IF is_some(early)
        THEN Result(Idle, SwipeDetected(unwrap(early)))
        ELSE Result([st EXCEPT !.tracker = t], EvNone)

\* A whole position arm: the tracker update and the early swipe check.
record_position(st, slot, axis, val, cfg) ==
    LET t == track_position(st.tracker, slot, axis, val)
        early == IF t.start_captured
                 THEN check_early_swipe(t, cfg.swipe_threshold)
                 ELSE None
    IN  IF is_some(early)
        THEN Result(Idle, SwipeDetected(unwrap(early)))
        ELSE Result([st EXCEPT !.tracker = t], EvNone)

\* An AbsAxis arm whose legacy axes write the selected slot.
track_axis_legacy_in_current(st, axis, val, cfg) ==
    CASE axis = "ABS_MT_SLOT" ->
            Result([st EXCEPT !.tracker = select_slot(@, val)], EvNone)
      [] axis = "ABS_MT_TRACKING_ID" ->
            Result([st EXCEPT !.tracker = set_tracking_id(@, val)], EvNone)
      [] axis \in {"ABS_MT_POSITION_X", "ABS_X"} ->
            IF st.tracker.current_slot < MAX_SLOTS
            THEN record_position(st, st.tracker.current_slot, "x", val, cfg)
            ELSE Result(st, EvNone)
      [] axis \in {"ABS_MT_POSITION_Y", "ABS_Y"} ->
            IF st.tracker.current_slot < MAX_SLOTS
            THEN record_position(st, st.tracker.current_slot, "y", val, cfg)
            ELSE Result(st, EvNone)
      [] OTHER -> Result(st, EvNone)

\* The AbsAxis arm in FingersDown.
track_axis(st, axis, val, cfg) ==
    CASE axis = "ABS_MT_SLOT" ->
            Result([st EXCEPT !.tracker = select_slot(@, val)], EvNone)
      [] axis = "ABS_MT_TRACKING_ID" ->
            Result([st EXCEPT !.tracker = set_tracking_id(@, val)], EvNone)
      [] axis = "ABS_MT_POSITION_X" ->
            IF st.tracker.current_slot < MAX_SLOTS
            THEN record_position(st, st.tracker.current_slot, "x", val, cfg)
            ELSE Result(st, EvNone)
      [] axis = "ABS_MT_POSITION_Y" ->
            IF st.tracker.current_slot < MAX_SLOTS
            THEN record_position(st, st.tracker.current_slot, "y", val, cfg)
            ELSE Result(st, EvNone)
      [] axis = "ABS_X" -> record_position(st, 0, "x", val, cfg)
      [] axis = "ABS_Y" -> record_position(st, 0, "y", val, cfg)
      [] OTHER -> Result(st, EvNone)

\* A cancel arm that ends the gesture in whatever state it finds.
cancel_pending_always(st) == Result(Idle, EvTriggerCancelled)

\* A cancel arm that lets the pending trigger stand.
cancel_pending_kept(st) == Result(st, EvNone)

\* The cancel-key arm, value 1: a pending trigger is cancelled.
cancel_pending(st) ==
    IF st.tag = "PendingTrigger"
    THEN Result(Idle, EvTriggerCancelled)
    ELSE Result(st, EvNone)

\* A process_event that takes the autorepeat of the tap key (value 2) for a
\* press.
process_event_on_repeat(event, st, cfg, since) ==
    IF event.kind = "Key" /\ event.code = tap_key(cfg.finger_count)
    THEN IF event.value >= 1
         THEN Stamped(FingersDown(NewTracker(cfg.finger_count)), EvFingersDown)
         ELSE IF event.value = 0 /\ st.tag = "FingersDown"
              THEN release_fingers(st, cfg, since)
              ELSE Result(st, EvNone)
    ELSE IF /\ event.kind = "Key"
            /\ Some(event.code) = cancel_key(cfg.finger_count)
            /\ event.value = 1
         THEN cancel_pending(st)
         ELSE IF event.kind = "AbsAxis" /\ st.tag = "FingersDown"
              THEN track_axis(st, event.code, event.value, cfg)
              ELSE Result(st, EvNone)

\* process_event(event, state, finger_count, tap_max_duration, tap_max_movement,
\* swipe_threshold), the last four read from cfg; since is the time elapsed
\* since the Instant the state holds.
process_event(event, st, cfg, since) ==
    IF event.kind = "Key" /\ event.code = tap_key(cfg.finger_count)
    THEN IF event.value = 1
         THEN Stamped(FingersDown(NewTracker(cfg.finger_count)), EvFingersDown)
         ELSE IF event.value = 0 /\ st.tag = "FingersDown"
              THEN release_fingers(st, cfg, since)
              ELSE Result(st, EvNone)
    ELSE IF /\ event.kind = "Key"
            /\ Some(event.code) = cancel_key(cfg.finger_count)
            /\ event.value = 1
         THEN cancel_pending(st)
         ELSE IF event.kind = "AbsAxis" /\ st.tag = "FingersDown"
              THEN track_axis(st, event.code, event.value, cfg)
              ELSE Result(st, EvNone)

\* A pending check that fires without waiting.
check_pending_trigger_at_once(st, since) ==
    IF st.tag = "PendingTrigger"
    THEN [state |-> Idle, fired |-> TRUE]
    ELSE [state |-> st, fired |-> FALSE]

\* check_pending_trigger: the new state and the boolean returned; since is
\* pending_since.elapsed().
check_pending_trigger(st, since) ==
    IF st.tag = "PendingTrigger" /\ since >= PENDING_TRIGGER_DEBOUNCE
    THEN [state |-> Idle, fired |-> TRUE]
    ELSE [state |-> st, fired |-> FALSE]

(***************************************************************************)
(* The recognizer in the gesture loop.                                     *)
(*   state    the GestureState of gesture_loop                             *)
(*   cfg      the GestureConfig in force (current_cfg)                     *)
(*   device   the kind of touchpad bound, which fixes the events it sends  *)
(*   elapsed  the clock: time since the last Instant::now() the recognizer *)
(*            stored (start or pending_since), in milliseconds             *)
(*   emitted  the GestureEvents other than None that process_event         *)
(*            returned for the events of the last fetched batch            *)
(*   fired    whether the last step was a check_pending_trigger that       *)
(*            returned true (the loop then sends ShowPieMenu)              *)
(*   cyc      history of the current gesture cycle (from one FingersDown   *)
(*            outcome to the next), kept for the statements about cycles   *)
(*   dx, dy, k, dir   inputs and result of the direction classifier alone  *)
(*   trk, calls       a tracker on its own and the number of               *)
(*                    try_capture_start calls made on it once latched      *)
(*   pc       where the recognizer thread is: not started, at one of the   *)
(*            three parts of a gesture_loop iteration, or returned         *)
(*   devices  the device paths gesture_loop has open (its devices vector)  *)
(*   present  the touchpad device nodes that exist under /dev/input        *)
(*   current_finger_count   the finger count the devices were scanned for  *)
(*   last_scan, last_config_check   whole seconds since the Instant of     *)
(*            that name, saturating just above the interval it is compared *)
(*            with                                                         *)
(*   needs_rescan   the flag of that name, set by the device reads         *)
(*   last_opened    the overlay recorded as open                           *)
(*   receiver       whether the receiving end of the channel still exists  *)
(*   sent, spawned  the messages passed to tx.send and the commands        *)
(*            spawned by the last step                                     *)
(*   iter     what the last step of the loop did and found (history)       *)
(*   env, outcome   what start_gesture_thread finds in the system and what *)
(*            it returned                                                  *)
(*   channel  the messages sent and not yet received by the applet         *)
(*   gesture_active   the applet's flag of that name                       *)
(*   drained  the last message the applet took from the channel (history)  *)
(***************************************************************************)
VARIABLES state, cfg, device, elapsed, emitted, fired, cyc, dx, dy, k, dir,
          trk, calls,
          pc, devices, present, current_finger_count, last_scan,
          last_config_check, needs_rescan, last_opened, receiver, sent,
          spawned, iter, env, outcome, channel, gesture_active, drained

vars == << state, cfg, device, elapsed, emitted, fired, cyc, dx, dy, k, dir,
           trk, calls,
           pc, devices, present, current_finger_count, last_scan,
           last_config_check, needs_rescan, last_opened, receiver, sent,
           spawned, iter, env, outcome, channel, gesture_active, drained >>

recognizerVars == << state, cfg, device, elapsed, emitted, fired, cyc >>

classifierVars == << dx, dy, k, dir >>

trackerVars == << trk, calls >>

loopVars == << pc, devices, present, current_finger_count, last_scan,
              last_config_check, needs_rescan, last_opened, receiver, sent,
              spawned, iter >>

setupVars == << env, outcome >>

appletVars == << channel, gesture_active, drained >>

\* The applet as PieMenuApplet::init leaves it, nothing sent yet.
NoApplet ==
    /\ channel = << >>
    /\ gesture_active = FALSE
    /\ drained = None

\* What iter holds before any step of the loop.
NoIteration ==
    [step |-> "none", reloaded |-> FALSE, changed |-> FALSE,
     rescanned |-> FALSE, after_clear |-> FALSE, loaded |-> None,
     read |-> {}, failed |-> {}, layout |-> None, spawn_ok |-> None,
     cleared |-> FALSE]

\* What env holds where start_gesture_thread is not looked at.
NoEnv == [paths |-> << >>, read_dir |-> "ok", probe |-> None,
          probe_open |-> "ok", open |-> "ok", spawn |-> "ok"]

\* The recognizer thread does not exist (yet).
NoThread ==
    /\ pc = "not_started"
    /\ devices = {}
    /\ present = {}
    /\ current_finger_count = 4
    /\ last_scan = 0
    /\ last_config_check = 0
    /\ needs_rescan = FALSE
    /\ last_opened = None
    /\ receiver = "alive"
    /\ sent = << >>
    /\ spawned = << >>
    /\ iter = NoIteration
    /\ NoApplet

\* GestureError values and Ok(()).
NoTouchpadFound == << "NoTouchpadFound" >>

PermissionDenied(path) == << "PermissionDenied", path >>

DeviceError == << "DeviceError" >>

ThreadError == << "ThreadError" >>

Ok == << "Ok" >>

\* start_gesture_thread has not returned.
NotReturned == << "NotReturned" >>

\* Neither the thread nor a call of start_gesture_thread is looked at.
ThreadNotStarted ==
    /\ NoThread
    /\ env = NoEnv
    /\ outcome = NotReturned

(***************************************************************************)
(* The events a device sends, batch by batch (one batch is what one        *)
(* fetch_events call returns; the loop processes it in order).             *)
(***************************************************************************)
\* Coordinates a position event carries.
Positions == {0, 1}

Keys == {"BTN_TOOL_TRIPLETAP", "BTN_TOOL_QUADTAP"}

KeyValues == {0, 1, 2}

\* Slot values that are no slot index: negative, or MAX_SLOTS and above.
BadSlotValues == {-1, MAX_SLOTS}

\* A legacy single-touch device sends ABS_X and ABS_Y; a multitouch device
\* sends slot reports, its fingers moving along the X axis.
Devices == {"legacy", "mt"}

\* The slots of the contacts present while the tap key is down.
Contacts(finger_count) == 0 .. (finger_count - 1)

\* A report of the contact in slot i at (v, 0).
Report(i, v) ==
    << AbsEvent("ABS_MT_SLOT", i),
       AbsEvent("ABS_MT_POSITION_X", v),
       AbsEvent("ABS_MT_POSITION_Y", 0) >>

\* The finger of slot i lifts, or touches again.
Lift(i) == << AbsEvent("ABS_MT_SLOT", i), AbsEvent("ABS_MT_TRACKING_ID", -1) >>

Touch(i) == << AbsEvent("ABS_MT_SLOT", i), AbsEvent("ABS_MT_TRACKING_ID", 0) >>

Batches(dev, finger_count) ==
    {<< KeyEvent(key, v) >> : key \in Keys, v \in KeyValues}
    \cup {<< AbsEvent("ABS_MT_SLOT", v) >> : v \in BadSlotValues}
    \cup {<< AbsEvent("ABS_PRESSURE", 0) >>, << OtherEvent >>}
    \cup (IF dev = "legacy"
          THEN {<< AbsEvent(a, v) >> : a \in {"ABS_X", "ABS_Y"}, v \in Positions}
          ELSE {Report(i, v) : i \in Contacts(finger_count), v \in Positions}
               \cup {Lift(finger_count - 1), Touch(finger_count - 1)})

Landed(t, i) == is_some(t.slots[i].start_x)

\* The slots are interchangeable to the tracker (the legacy axes aside), so
\* the model lets the contacts reach it in slot order: slot i reports once
\* slot i - 1 has, and the one finger that lifts is the last to have landed.
InSlotOrder(t, batch) ==
    IF batch[1].kind = "AbsAxis" /\ batch[1].code = "ABS_MT_SLOT"
         /\ batch[1].value \in SlotIndex /\ batch[1].value > 0
    THEN /\ Landed(t, batch[1].value - 1)
         /\ IF batch[2].code = "ABS_MT_TRACKING_ID"
            THEN Landed(t, batch[1].value)
            ELSE TRUE
    ELSE TRUE

\* Configurations: finger_count 3 or 4, thresholds in coordinate units.
Configs ==
    [finger_count     : {3, 4},
     tap_max_duration : {TickMs},
     tap_max_movement : {0, 1},
     swipe_threshold  : {1}]

(***************************************************************************)
(* History of a gesture cycle.                                             *)
(***************************************************************************)
\* How far from its start position a position event puts the finger it
\* reports, on either axis; 0 while the finger has no start position yet
\* (a start position is both coordinates of the first report).
Displacement(t, event) ==
    LET onX  == event.code \in {"ABS_MT_POSITION_X", "ABS_X"}
        slot == IF event.code \in {"ABS_X", "ABS_Y"} THEN 0 ELSE t.current_slot
        s    == t.slots[slot]
        sx   == IF onX /\ is_none(s.start_x) THEN Some(event.value) ELSE s.start_x
        sy   == IF ~onX /\ is_none(s.start_y) THEN Some(event.value) ELSE s.start_y
        x    == IF onX THEN event.value ELSE s.x
        y    == IF onX THEN s.y ELSE event.value
    IN  IF is_some(sx) /\ is_some(sy)
        THEN Max2(Abs(x - unwrap(sx)), Abs(y - unwrap(sy)))
        ELSE 0

\* The direction the specification gives a movement (x, y): the dominant
\* axis by magnitude, ties to the vertical.
\* |x| > |y| over the integers, for x and y in the i32 range.
MagnitudeGreater(x, y) ==
    IF x = I32_MIN THEN y # I32_MIN
    ELSE IF y = I32_MIN THEN FALSE
    ELSE Abs(x) > Abs(y)

DirectionTable(x, y) ==
    IF MagnitudeGreater(x, y)
    THEN (IF x > 0 THEN "Right" ELSE "Left")
    ELSE (IF y > 0 THEN "Down" ELSE "Up")

\* A position event, of a multitouch or of a legacy device.
IsPositionEvent(event) ==
    /\ event.kind = "AbsAxis"
    /\ event.code \in {"ABS_MT_POSITION_X", "ABS_MT_POSITION_Y", "ABS_X", "ABS_Y"}

\* The history of a cycle:
\*   phase    "none" before the first press, "down" from a tap-key press to
\*            the first tap-key release after it, "up" from then on
\*   quiet    no position event of the cycle has put a finger further than
\*            tap_max_movement from its start
\*   tracked  a position event has reached the tracker in the cycle
\*   in_time  the release came within tap_max_duration of the press
\*   early    a SwipeDetected was returned before the release
\*   release  what the release found: "ignored" when the state was not
\*            FingersDown, else "moved" when max_movement_from_start was
\*            above tap_max_movement, else "slow" or "tap" by the duration
\*   dir_ok   the release returned SwipeDetected with the dominant axis of
\*            the average movement at that moment
\*   ups, swipes, cancels   FingersUp outcomes (check_pending_trigger firing
\*            counts as one), SwipeDetected and TriggerCancelled outcomes,
\*            counted up to 2
NoCycle ==
    [phase |-> "none", quiet |-> TRUE, tracked |-> FALSE, in_time |-> FALSE,
     early |-> FALSE, release |-> "none", dir_ok |-> FALSE,
     ups |-> 0, swipes |-> 0, cancels |-> 0]

Count(n) == IF n < 2 THEN n + 1 ELSE n

ReleaseFinds(st, config, since) ==
    IF st.tag # "FingersDown" THEN "ignored"
    ELSE IF max_movement_from_start(st.tracker) > config.tap_max_movement THEN "moved"
    ELSE IF since > config.tap_max_duration THEN "slow"
    ELSE "tap"

DominantAxisReturned(st, ev) ==
    /\ st.tag = "FingersDown"
    /\ \E avg \in {average_movement(st.tracker)} :
           ev = SwipeDetected(DirectionTable(avg.dx, avg.dy))

\* The history after process_event(event) took st to r.state and returned
\* r.ev, the clock reading since at the call.
CycleAfterEvent(c, event, st, r, config, since) ==
    IF r.ev = EvFingersDown
    THEN [NoCycle EXCEPT !.phase = "down"]
    ELSE IF c.phase = "none" THEN c
    ELSE LET isDown    == c.phase = "down"
             isRelease == /\ isDown
                          /\ event.kind = "Key"
                          /\ event.code = tap_key(config.finger_count)
                          /\ event.value = 0
             reaches   == isDown /\ st.tag = "FingersDown" /\ IsPositionEvent(event)
         IN  [phase   |-> IF isRelease THEN "up" ELSE c.phase,
              quiet   |-> IF reaches /\ c.quiet
                          THEN Displacement(st.tracker, event) <= config.tap_max_movement
                          ELSE c.quiet,
              tracked |-> c.tracked \/ reaches,
              in_time |-> IF isRelease
                          THEN since <= config.tap_max_duration
                          ELSE c.in_time,
              early   |-> c.early \/ (isDown /\ ~isRelease /\ IsSwipe(r.ev)),
              release |-> IF isRelease THEN ReleaseFinds(st, config, since) ELSE c.release,
              dir_ok  |-> IF isRelease THEN DominantAxisReturned(st, r.ev) ELSE c.dir_ok,
              ups     |-> IF r.ev = EvFingersUp THEN Count(c.ups) ELSE c.ups,
              swipes  |-> IF IsSwipe(r.ev) THEN Count(c.swipes) ELSE c.swipes,
              cancels |-> IF r.ev = EvTriggerCancelled THEN Count(c.cancels) ELSE c.cancels]

\* One pass of the loop body over an event: process_event, then what the
\* step leaves in the state, the clock, the outcomes so far and the history.
AfterEvent(acc, event, config, r) ==
    [state |-> r.state,
     since |-> IF r.stamped THEN 0 ELSE acc.since,
     out   |-> IF r.ev = EvNone THEN acc.out ELSE Append(acc.out, r.ev),
     cyc   |-> CycleAfterEvent(acc.cyc, event, acc.state, r, config, acc.since)]

RECURSIVE RunBatch(_, _, _, _)
\* The loop over a fetched batch: process_event on each event in order.
\* (Each intermediate value is bound once, as the element of a one-element set.)
RunBatch(batch, i, config, acc) ==
    IF i > Len(batch) THEN acc
    ELSE CHOOSE last \in
             { RunBatch(batch, i + 1, config, next) :
                   next \in { AfterEvent(acc, batch[i], config, r) :
                                  r \in { process_event(batch[i], acc.state,
                                                         config, acc.since) } } } :
             TRUE

Init ==
    /\ ThreadNotStarted
    /\ state = Idle
    /\ cfg \in Configs
    /\ device \in Devices
    /\ elapsed = 0
    /\ emitted = << >>
    /\ fired = FALSE
    /\ cyc = NoCycle
    /\ dx = 0 /\ dy = 0 /\ k = 1 /\ dir = "unset"
    /\ trk = NewTracker(3) /\ calls = 0

\* One fetched batch goes through process_event, event by event.
FetchEvents(batch) ==
    /\ IF state.tag = "FingersDown" THEN InSlotOrder(state.tracker, batch) ELSE TRUE
    /\ \E r \in { RunBatch(batch, 1, cfg,
                       [state |-> state, since |-> elapsed, out |-> << >>, cyc |-> cyc]) } :
           /\ state' = r.state
           /\ elapsed' = r.since
           /\ emitted' = r.out
           /\ fired' = FALSE
           /\ cyc' = r.cyc
    /\ UNCHANGED << cfg, device, classifierVars, trackerVars, loopVars, setupVars, appletVars >>

\* The end of a loop iteration: check_pending_trigger.
CheckPendingTrigger ==
    LET r == check_pending_trigger(state, elapsed)
    IN  /\ state' = r.state
        /\ fired' = r.fired
        /\ emitted' = << >>
        /\ cyc' = IF r.fired THEN [cyc EXCEPT !.ups = Count(@)] ELSE cyc
        /\ UNCHANGED << cfg, device, elapsed, classifierVars, trackerVars, loopVars, setupVars, appletVars >>

\* Time passes.
Tick ==
    /\ elapsed < MaxTicks * TickMs
    /\ elapsed' = elapsed + TickMs
    /\ emitted' = << >>
    /\ fired' = FALSE
    /\ UNCHANGED << state, cfg, device, cyc, classifierVars, trackerVars, loopVars, setupVars, appletVars >>

Next ==
    \/ \E batch \in Batches(device, cfg.finger_count) : FetchEvents(batch)
    \/ CheckPendingTrigger
    \/ Tick

Spec == Init /\ [][Next]_vars

(***************************************************************************)
(* The direction classifier on its own: calculate_swipe_direction_from_    *)
(* delta applied to deltas drawn from a small range around zero and from   *)
(* the ends of the i32 range.                                              *)
(***************************************************************************)
Deltas == ((-MaxDelta) .. MaxDelta) \cup {I32_MIN, I32_MAX}

\* What a call returns under either build: with overflow checks (a debug
\* build) i32::abs panics on i32::MIN, without them it wraps.
classify_in_build(x, y, overflow_checks) ==
    IF overflow_checks /\ (x = I32_MIN \/ y = I32_MIN)
    THEN "panic"
    ELSE calculate_swipe_direction_from_delta(x, y)

InitDir ==
    /\ ThreadNotStarted
    /\ state = Idle
    /\ cfg = [finger_count |-> 4, tap_max_duration |-> TickMs,
              tap_max_movement |-> 1, swipe_threshold |-> 1]
    /\ device = "mt"
    /\ elapsed = 0
    /\ emitted = << >>
    /\ fired = FALSE
    /\ cyc = NoCycle
    /\ dx \in Deltas
    /\ dy \in Deltas
    /\ k \in 1 .. MaxScale
    /\ dir = "unset"
    /\ trk = NewTracker(3) /\ calls = 0

\* One call of the classifier on (dx, dy).
Classify(overflow_checks) ==
    /\ dir = "unset"
    /\ dir' = classify_in_build(dx, dy, overflow_checks)
    /\ UNCHANGED << dx, dy, k, recognizerVars, trackerVars, loopVars, setupVars, appletVars >>

\* k * dx and k * dy stay in the i32 range.
Scalable == k = 1 \/ (dx \in (-MaxDelta) .. MaxDelta /\ dy \in (-MaxDelta) .. MaxDelta)

\* The same movement k times as large is classified.
ClassifyScaled ==
    /\ dir \in SwipeDirection
    /\ k > 1
    /\ Scalable
    /\ dx' = k * dx
    /\ dy' = k * dy
    /\ k' = 1
    /\ dir' = calculate_swipe_direction_from_delta(dx', dy')
    /\ UNCHANGED << recognizerVars, trackerVars, loopVars, setupVars, appletVars >>

NextDir ==
    \/ \E overflow_checks \in BOOLEAN : Classify(overflow_checks)
    \/ ClassifyScaled

SpecDir == InitDir /\ [][NextDir]_vars

(***************************************************************************)
(* The tracker on its own: position reports and lifts as process_event     *)
(* applies them, and direct calls of try_capture_start.                    *)
(***************************************************************************)
InitTracker ==
    /\ ThreadNotStarted
    /\ state = Idle
    /\ cfg = [finger_count |-> 4, tap_max_duration |-> TickMs,
              tap_max_movement |-> 1, swipe_threshold |-> 1]
    /\ device = "mt"
    /\ elapsed = 0
    /\ emitted = << >>
    /\ fired = FALSE
    /\ cyc = NoCycle
    /\ dx = 0 /\ dy = 0 /\ k = 1 /\ dir = "unset"
    /\ trk = NewTracker(3)
    /\ calls = 0

\* The ABS_MT_SLOT, ABS_MT_POSITION_X and ABS_MT_POSITION_Y arms on a report
\* of the contact in slot i at (v, 0).
TrackerReport(i, v) ==
    /\ IF i = 0 THEN TRUE ELSE Landed(trk, i - 1)
    /\ trk' = track_position(
                  track_position(select_slot(trk, i), i, "x", v), i, "y", 0)
    /\ emitted' = << >>
    /\ UNCHANGED << calls, state, cfg, device, elapsed, fired, cyc, classifierVars, loopVars, setupVars, appletVars >>

\* The ABS_MT_SLOT and ABS_MT_POSITION_Y arms when the contact in slot i,
\* already reported, moves to height v (the first two contacts do).
TrackerMoveY(i, v) ==
    /\ Landed(trk, i)
    /\ trk' = track_position(select_slot(trk, i), i, "y", v)
    /\ emitted' = << >>
    /\ UNCHANGED << calls, state, cfg, device, elapsed, fired, cyc, classifierVars, loopVars, setupVars, appletVars >>

\* process_event on an ABS_MT_SLOT event selecting slot i and then on a
\* legacy ABS_X or ABS_Y event (a multitouch device reports the legacy axes
\* as well), the tracker being the one of a FingersDown state.
TrackerLegacy(i, axis, v) ==
    /\ \E sel \in { process_event(AbsEvent("ABS_MT_SLOT", i), FingersDown(trk),
                                    cfg, elapsed) } :
       \E r \in { process_event(AbsEvent(axis, v), sel.state, cfg, elapsed) } :
           /\ r.state.tag = "FingersDown"
           /\ trk' = r.state.tracker
           /\ emitted' = << r.ev >>
    /\ UNCHANGED << calls, state, cfg, device, elapsed, fired, cyc, classifierVars, loopVars, setupVars, appletVars >>

\* The ABS_MT_SLOT and ABS_MT_TRACKING_ID arms when the finger of slot i lifts.
TrackerLift(i) ==
    /\ Landed(trk, i)
    /\ trk' = set_tracking_id(select_slot(trk, i), -1)
    /\ emitted' = << >>
    /\ UNCHANGED << calls, state, cfg, device, elapsed, fired, cyc, classifierVars, loopVars, setupVars, appletVars >>

\* process_event on an ABS_MT_SLOT event that names no slot, the tracker
\* being the one of a FingersDown state; emitted records what it returned,
\* None included.
TrackerBadSlot(val) ==
    /\ \E r \in { process_event(AbsEvent("ABS_MT_SLOT", val), FingersDown(trk),
                                  cfg, elapsed) } :
           /\ r.state.tag = "FingersDown"
           /\ trk' = r.state.tracker
           /\ emitted' = << r.ev >>
    /\ UNCHANGED << calls, state, cfg, device, elapsed, fired, cyc, classifierVars, loopVars, setupVars, appletVars >>

\* One more call of try_capture_start; calls on a latched tracker are counted.
CallTryCaptureStart ==
    /\ calls < MaxCalls
    /\ trk' = try_capture_start(trk)
    /\ calls' = IF trk.start_captured THEN calls + 1 ELSE calls
    /\ emitted' = << >>
    /\ UNCHANGED << state, cfg, device, elapsed, fired, cyc, classifierVars, loopVars, setupVars, appletVars >>

NextTracker ==
    \/ \E i \in Contacts(trk.min_fingers_for_start), v \in Positions : TrackerReport(i, v)
    \/ \E i \in {0, 1}, v \in Positions : TrackerMoveY(i, v)
    \/ \E i \in Contacts(trk.min_fingers_for_start) : TrackerLift(i)
    \/ \E axis \in {"ABS_X", "ABS_Y"}, v \in Positions : TrackerLegacy(1, axis, v)
    \/ \E val \in BadSlotValues : TrackerBadSlot(val)
    \/ CallTryCaptureStart

SpecTracker == InitTracker /\ [][NextTracker]_vars

(***************************************************************************)
(* gesture_loop: the recognizer thread.  One iteration of the loop is      *)
(* three steps: its head (configuration reload, finger-count check and     *)
(* rescan), the reads of the bound devices with the dispatch of what       *)
(* process_event returns, and its tail (check_pending_trigger and the      *)
(* clearing of the device set).                                            *)
(***************************************************************************)
\* config_check_interval, rescan_interval, the rescan backoff and the sleep
\* after a rescan that found nothing, in seconds.
CONFIG_CHECK_INTERVAL == 2

RESCAN_INTERVAL == 30

RESCAN_BACKOFF == 5

RESCAN_SLEEP == 5

\* Seconds that pass at once while the thread waits.
WaitSecs == 3

\* A duration is kept up to the interval it is compared with; every longer
\* one is kept as limit + 1.
Saturate(t, limit) == IF t > limit THEN limit + 1 ELSE t

SwipeAction == {"None", "AppLibrary", "Launcher", "Workspaces", "PieMenu"}

\* SwipeAction::command.
command(action) ==
    CASE action = "None"       -> None
      [] action = "AppLibrary" -> Some("cosmic-app-library")
      [] action = "Launcher"   -> Some("cosmic-launcher")
      [] action = "Workspaces" -> Some("cosmic-workspaces")
      [] action = "PieMenu"    -> None

WorkspaceLayout == {"Horizontal", "Vertical"}

\* The device nodes of the model and the tool keys each supports; both are
\* touchpads with absolute axes.
DevicePaths == {"event0", "event1"}

supported_keys(path) ==
    IF path = "event0" THEN {"BTN_TOOL_TRIPLETAP", "BTN_TOOL_QUADTAP"}
    ELSE {"BTN_TOOL_TRIPLETAP"}

\* The order in which the devices vector holds the paths.
DeviceOrder == << "event0", "event1" >>

\* required_key of find_touchpad_paths and of the scans in gesture_loop
\* (the same key as tap_key of process_event).
required_key(finger_count) ==
    IF finger_count = 3 THEN "BTN_TOOL_TRIPLETAP" ELSE "BTN_TOOL_QUADTAP"

is_touchpad_with_finger_support(path, finger_count) ==
    required_key(finger_count) \in supported_keys(path)

\* find_touchpad_paths over the device nodes that exist.
find_touchpad_paths(nodes, finger_count) ==
    { p \in nodes : is_touchpad_with_finger_support(p, finger_count) }

\* The scan of gesture_loop: the paths found, opened, and kept when the
\* device has the required key.
scan_devices(nodes, finger_count) ==
    { p \in find_touchpad_paths(nodes, finger_count) :
          required_key(finger_count) \in supported_keys(p) }

\* The configurations the settings file can hold: GestureConfig::from of a
\* PieMenuConfig.
LoopConfigs ==
    [finger_count     : {3, 4},
     tap_max_duration : {TickMs},
     tap_max_movement : {0, 1},
     swipe_threshold  : {1},
     swipe_up         : {"AppLibrary"},
     swipe_down       : {"Launcher"},
     swipe_left       : {"PieMenu"},
     swipe_right      : {"None"}]

\* The local variables of gesture_loop that its head works on.
Locals ==
    [state |-> state, current_cfg |-> cfg,
     current_finger_count |-> current_finger_count, devices |-> devices,
     last_scan |-> last_scan, last_config_check |-> last_config_check,
     since |-> elapsed]

\* A reload that takes the gesture back to Idle when the finger count changes.
reload_config_resetting(l, new_cfg) ==
    [l EXCEPT !.current_cfg = new_cfg, !.last_config_check = 0,
              !.state = IF new_cfg.finger_count # l.current_cfg.finger_count
                        THEN Idle ELSE @]

\* The periodic reload: current_cfg is replaced by what the file holds, and
\* last_config_check restarts.
reload_config(l, new_cfg) ==
    [l EXCEPT !.current_cfg = new_cfg, !.last_config_check = 0]

\* A finger-count check that leaves the devices bound.
finger_count_check_keeping(l) ==
    IF l.current_cfg.finger_count # l.current_finger_count
    THEN [l EXCEPT !.current_finger_count = l.current_cfg.finger_count]
    ELSE l

\* The finger-count check: a changed count clears the devices and puts
\* last_scan a whole rescan_interval into the past.
finger_count_check(l) ==
    IF l.current_cfg.finger_count # l.current_finger_count
    THEN [l EXCEPT !.current_finger_count = l.current_cfg.finger_count,
                   !.devices = {},
                   !.last_scan = Saturate(RESCAN_INTERVAL, RESCAN_BACKOFF)]
    ELSE l

\* A rescan test that does not look at the device set.
rescan_due_when_bound(l) == l.last_scan > RESCAN_BACKOFF

\* Whether this iteration rescans.
rescan_due(l) == l.devices = {} /\ l.last_scan > RESCAN_BACKOFF

\* The rescan: the devices found replace the (empty) set; when none is
\* found the thread sleeps; last_scan restarts either way.
rescan(l, nodes) ==
    LET new_devices == scan_devices(nodes, l.current_finger_count)
    IN  IF new_devices # {}
        THEN [l EXCEPT !.devices = new_devices, !.last_scan = 0]
        ELSE [l EXCEPT !.last_scan = 0,
                       !.last_config_check =
                           Saturate(@ + RESCAN_SLEEP, CONFIG_CHECK_INTERVAL),
                       !.since = MaxTicks * TickMs]

\* The head of an iteration on the locals l, the settings file holding
\* new_cfg: lines 621-691.
loop_head(l, new_cfg, nodes) ==
    LET reloaded == IF l.last_config_check > CONFIG_CHECK_INTERVAL
                    THEN reload_config(l, new_cfg) ELSE l
        checked  == finger_count_check(reloaded)
    IN  IF rescan_due(checked)
        THEN [locals |-> rescan(checked, nodes), rescanned |-> TRUE]
        ELSE [locals |-> checked, rescanned |-> FALSE]

\* What one fetch_events call returns: a batch of events or an I/O error.
FetchOk(batch) == [tag |-> "Ok", events |-> batch]

FetchErr(errno) == [tag |-> "Err", errno |-> errno]

\* The tool-key events a device can send, one per fetch.
KeyBatches(path) ==
    { << KeyEvent(key, v) >> : key \in supported_keys(path), v \in {0, 1} }

\* The position of the one finger a legacy device reports, both axes in
\* one fetch.
PositionBatches ==
    { << AbsEvent("ABS_X", x), AbsEvent("ABS_Y", y) >> :
          x \in Positions, y \in Positions }

\* An error of fetch_events other than ENODEV.
OtherErrnos == {"EIO"}

\* What reading a bound device can give: ENODEV once its node is gone,
\* otherwise one of the batches or another error.
FetchOutcomes(path, nodes, batches) ==
    IF path \in nodes
    THEN { FetchOk(b) : b \in batches } \cup { FetchErr(e) : e \in OtherErrnos }
    ELSE { FetchErr("ENODEV") }

\* What the reads and the dispatch work on: the gesture state and its clock,
\* last_opened, needs_rescan, the messages passed to tx.send, the commands
\* spawned, whether gesture_loop has returned, the devices read, the reads
\* that failed (device and errno), and the GestureEvents other than None
\* returned.
ReadStart ==
    [state |-> state, since |-> elapsed, last_opened |-> last_opened,
     needs_rescan |-> FALSE, sent |-> << >>, spawned |-> << >>,
     returned |-> FALSE, read |-> {}, failed |-> {}, out |-> << >>]

\* tx.send(msg): the message is handed to the channel; the call fails once
\* the receiver is dropped.
send(acc, msg) == [acc EXCEPT !.sent = Append(@, msg)]

send_is_err(rcv) == rcv = "dropped"

\* A send whose failure makes gesture_loop return.
send_or_return(acc, msg, rcv) ==
    [send(acc, msg) EXCEPT !.returned = send_is_err(rcv)]

\* A layout filter that lets every direction through.
direction_allowed_always(layout, direction) == TRUE

\* direction_allowed of the SwipeDetected arm.
direction_allowed(layout, direction) ==
    IF layout = "Horizontal"
    THEN direction \in {"Up", "Down"}
    ELSE direction \in {"Left", "Right"}

\* The action configured for a direction.
configured_action(config, direction) ==
    CASE direction = "Up"    -> config.swipe_up
      [] direction = "Down"  -> config.swipe_down
      [] direction = "Left"  -> config.swipe_left
      [] direction = "Right" -> config.swipe_right

\* A choice of action that ignores what is recorded as open.
action_to_run_configured(opened, config, direction) ==
    configured_action(config, direction)

\* action_to_run: the recorded action while something is open, otherwise
\* the configured one.
action_to_run(opened, config, direction) ==
    IF is_some(opened) THEN unwrap(opened).action
    ELSE configured_action(config, direction)

\* A dispatch that updates last_opened whether or not the spawn succeeded.
dispatch_swipe_hopeful(acc, direction, config, rcv, layout, spawn_ok) ==
    IF ~direction_allowed(layout, direction)
    THEN acc
    ELSE LET is_closing == is_some(acc.last_opened)
             action     == action_to_run(acc.last_opened, config, direction)
             updated    == [acc EXCEPT
                                !.last_opened =
                                    IF is_closing THEN None
                                    ELSE Some([action |-> action,
                                               direction |-> direction])]
         IN  CASE action = "None" -> acc
               [] action = "PieMenu" ->
                      send_or_return([acc EXCEPT !.last_opened = None],
                                     "ShowPieMenu", rcv)
               [] OTHER ->
                      IF is_some(command(action)) /\ spawn_ok
                      THEN [updated EXCEPT
                                !.spawned = Append(@, unwrap(command(action)))]
                      ELSE updated

\* A dispatch that records the pie menu as open like any other action.
dispatch_swipe_recording_all(acc, direction, config, rcv, layout, spawn_ok) ==
    IF ~direction_allowed(layout, direction)
    THEN acc
    ELSE LET is_closing == is_some(acc.last_opened)
             action     == action_to_run(acc.last_opened, config, direction)
             recorded   == IF is_closing THEN None
                           ELSE Some([action |-> action,
                                      direction |-> direction])
         IN  CASE action = "None" -> acc
               [] action = "PieMenu" ->
                      send_or_return([acc EXCEPT !.last_opened = recorded],
                                     "ShowPieMenu", rcv)
               [] OTHER ->
                      IF is_some(command(action)) /\ spawn_ok
                      THEN [acc EXCEPT
                                !.spawned = Append(@, unwrap(command(action))),
                                !.last_opened = recorded]
                      ELSE acc

\* The SwipeDetected arm after the Reset: lines 725-819.  spawn_ok says
\* whether Command::spawn (or its retry under /usr/bin) succeeds.
dispatch_swipe(acc, direction, config, rcv, layout, spawn_ok) ==
    IF ~direction_allowed(layout, direction)
    THEN acc
    ELSE LET is_closing == is_some(acc.last_opened)
             action     == action_to_run(acc.last_opened, config, direction)
         IN  CASE action = "None" -> acc
               [] action = "PieMenu" ->
                      send_or_return([acc EXCEPT !.last_opened = None],
                                     "ShowPieMenu", rcv)
               [] OTHER ->
                      IF is_some(command(action)) /\ spawn_ok
                      THEN [acc EXCEPT
                                !.spawned = Append(@, unwrap(command(action))),
                                !.last_opened =
                                    IF is_closing THEN None
                                    ELSE Some([action |-> action,
                                               direction |-> direction])]
                      ELSE acc

\* The match on what process_event returned: lines 709-822.
dispatch(acc, ev, config, rcv, layout, spawn_ok) ==
    CASE ev = EvFingersDown      -> send(acc, "FingersDown")
      [] ev = EvFingersUp        -> send_or_return(acc, "ShowPieMenu", rcv)
      [] ev = EvTriggerCancelled -> send(acc, "Reset")
      [] IsSwipe(ev)             ->
             dispatch_swipe(send(acc, "Reset"), ev[2], config, rcv,
                            layout, spawn_ok)
      [] OTHER                   -> acc

\* The events of one batch, in order, until gesture_loop returns.
RECURSIVE run_events(_, _, _, _, _, _, _)
run_events(batch, i, acc, config, rcv, layout, spawn_ok) ==
    IF i > Len(batch) \/ acc.returned
    THEN acc
    ELSE CHOOSE last \in
             { run_events(batch, i + 1, next, config, rcv, layout, spawn_ok) :
                   next \in { dispatch([acc EXCEPT
                                            !.state = r.state,
                                            !.since = IF r.stamped THEN 0 ELSE @,
                                            !.out = IF r.ev = EvNone THEN @
                                                    ELSE Append(@, r.ev)],
                                       r.ev, config, rcv, layout, spawn_ok) :
                                  r \in { process_event(batch[i], acc.state,
                                                         config, acc.since) } } } :
             TRUE

\* The Err arm of the read: only ENODEV asks for a rescan.
on_read_error(acc, errno) ==
    IF errno = "ENODEV" THEN [acc EXCEPT !.needs_rescan = TRUE] ELSE acc

\* The body of the for loop for one device.
read_device(acc, path, fetched, config, rcv, layout, spawn_ok) ==
    LET seen == [acc EXCEPT !.read = @ \cup {path},
                            !.failed = IF fetched.tag = "Err"
                                       THEN @ \cup {<< path, fetched.errno >>}
                                       ELSE @]
    IN  IF fetched.tag = "Ok"
        THEN run_events(fetched.events, 1, seen, config, rcv, layout, spawn_ok)
        ELSE on_read_error(seen, fetched.errno)

\* A loop in which every device has a gesture state of its own: the events
\* of each device start from the state the iteration began with.
RECURSIVE read_devices_apart(_, _, _, _, _, _, _, _)
read_devices_apart(bound, i, acc, fetched, config, rcv, layout, spawn_ok) ==
    IF i > Len(DeviceOrder) \/ acc.returned
    THEN acc
    ELSE IF DeviceOrder[i] \in bound
         THEN read_devices_apart(bound, i + 1,
                                 read_device([acc EXCEPT !.state = state,
                                                         !.since = elapsed],
                                             DeviceOrder[i],
                                             fetched[DeviceOrder[i]], config, rcv,
                                             layout, spawn_ok),
                                 fetched, config, rcv, layout, spawn_ok)
         ELSE read_devices_apart(bound, i + 1, acc, fetched, config, rcv, layout,
                                 spawn_ok)

\* The for loop over the devices vector, until gesture_loop returns.
RECURSIVE read_devices(_, _, _, _, _, _, _, _)
read_devices(bound, i, acc, fetched, config, rcv, layout, spawn_ok) ==
    IF i > Len(DeviceOrder) \/ acc.returned
    THEN acc
    ELSE IF DeviceOrder[i] \in bound
         THEN read_devices(bound, i + 1,
                           read_device(acc, DeviceOrder[i],
                                       fetched[DeviceOrder[i]], config, rcv,
                                       layout, spawn_ok),
                           fetched, config, rcv, layout, spawn_ok)
         ELSE read_devices(bound, i + 1, acc, fetched, config, rcv, layout,
                           spawn_ok)

\* A tail that keeps the device set after a failed read.
clear_devices_never(bound, flag) == bound

\* The end of an iteration: devices.clear() when needs_rescan is set.
clear_devices(bound, flag) == IF flag THEN {} ELSE bound

\* gesture_loop has started: the configuration is the one on disk, the
\* devices are those the initial scan found, and the function has returned
\* already when it found none.
InitLoop ==
    /\ state = Idle
    /\ cfg \in LoopConfigs
    /\ device = "legacy"
    /\ elapsed = 0
    /\ emitted = << >>
    /\ fired = FALSE
    /\ cyc = NoCycle
    /\ dx = 0 /\ dy = 0 /\ k = 1 /\ dir = "unset"
    /\ trk = NewTracker(3) /\ calls = 0
    /\ present \in SUBSET DevicePaths
    /\ devices = scan_devices(present, cfg.finger_count)
    /\ pc = IF devices = {} THEN "returned" ELSE "head"
    /\ current_finger_count = cfg.finger_count
    /\ last_scan = 0
    /\ last_config_check = 0
    /\ needs_rescan = FALSE
    /\ last_opened = None
    /\ receiver = "alive"
    /\ sent = << >>
    /\ spawned = << >>
    /\ iter = NoIteration
    /\ env = NoEnv
    /\ outcome = Ok
    /\ NoApplet

\* The head of an iteration, the settings file holding new_cfg.
LoopHead(new_cfg) ==
    /\ pc = "head"
    /\ \E r \in { loop_head(Locals, new_cfg, present) } :
           /\ state' = r.locals.state
           /\ cfg' = r.locals.current_cfg
           /\ current_finger_count' = r.locals.current_finger_count
           /\ devices' = r.locals.devices
           /\ last_scan' = r.locals.last_scan
           /\ last_config_check' = r.locals.last_config_check
           /\ elapsed' = r.locals.since
           /\ pc' = IF r.rescanned THEN "head" ELSE "read"
           /\ iter' = [NoIteration EXCEPT
                           !.step = "head",
                           !.reloaded = last_config_check > CONFIG_CHECK_INTERVAL,
                           !.changed = r.locals.current_finger_count
                                           # current_finger_count,
                           !.rescanned = r.rescanned,
                           !.after_clear = iter.cleared,
                           !.loaded = IF last_config_check > CONFIG_CHECK_INTERVAL
                                      THEN Some(new_cfg) ELSE None]
    /\ sent' = << >>
    /\ spawned' = << >>
    /\ emitted' = << >>
    /\ fired' = FALSE
    /\ UNCHANGED << device, cyc, present, needs_rescan, last_opened, receiver,
                    classifierVars, trackerVars, setupVars >>

\* The reads of the bound devices, fetched[p] being what fetch_events gives
\* for device p, with the dispatch of what process_event returns.
ReadDevices(fetched, layout, spawn_ok) ==
    /\ pc = "read"
    /\ \E acc \in { read_devices(devices, 1, ReadStart, fetched, cfg, receiver,
                                 layout, spawn_ok) } :
           /\ state' = acc.state
           /\ elapsed' = acc.since
           /\ last_opened' = acc.last_opened
           /\ needs_rescan' = acc.needs_rescan
           /\ sent' = acc.sent
           /\ spawned' = acc.spawned
           /\ emitted' = acc.out
           /\ pc' = IF acc.returned THEN "returned" ELSE "tail"
           /\ iter' = [NoIteration EXCEPT
                           !.step = "read", !.read = acc.read,
                           !.failed = acc.failed,
                           !.layout = IF \E i \in DOMAIN acc.out : IsSwipe(acc.out[i])
                                      THEN Some(layout) ELSE None,
                           !.spawn_ok = IF \E i \in DOMAIN acc.out : IsSwipe(acc.out[i])
                                        THEN Some(spawn_ok) ELSE None]
    /\ fired' = FALSE
    /\ UNCHANGED << cfg, device, cyc, devices, present, current_finger_count,
                    last_scan, last_config_check, receiver, classifierVars,
                    trackerVars, setupVars >>

\* The tail of an iteration: check_pending_trigger, the ShowPieMenu it
\* leads to, and the clearing of the devices after a failed read.
LoopTail ==
    /\ pc = "tail"
    /\ \E r \in { check_pending_trigger(state, elapsed) } :
           /\ state' = r.state
           /\ fired' = r.fired
           /\ sent' = IF r.fired THEN << "ShowPieMenu" >> ELSE << >>
           /\ IF r.fired /\ send_is_err(receiver)
              THEN /\ pc' = "returned"
                   /\ UNCHANGED << devices, needs_rescan >>
              ELSE /\ pc' = "head"
                   /\ devices' = clear_devices(devices, needs_rescan)
                   /\ needs_rescan' = FALSE
    /\ spawned' = << >>
    /\ emitted' = << >>
    /\ iter' = [NoIteration EXCEPT !.step = "tail",
                                   !.cleared = needs_rescan /\ pc' = "head"]
    /\ UNCHANGED << cfg, device, elapsed, cyc, present, current_finger_count,
                    last_scan, last_config_check, last_opened, receiver,
                    classifierVars, trackerVars, setupVars >>

\* A device node disappears, or appears.
Unplug(path) ==
    /\ pc \in {"head", "read", "tail"}
    /\ path \in present
    /\ present' = present \ {path}
    /\ UNCHANGED << recognizerVars, classifierVars, trackerVars, pc, devices,
                    current_finger_count, last_scan, last_config_check,
                    needs_rescan, last_opened, receiver, sent, spawned, iter,
                    setupVars, appletVars >>

Plug(path) ==
    /\ pc \in {"head", "read", "tail"}
    /\ path \notin present
    /\ present' = present \cup {path}
    /\ UNCHANGED << recognizerVars, classifierVars, trackerVars, pc, devices,
                    current_finger_count, last_scan, last_config_check,
                    needs_rescan, last_opened, receiver, sent, spawned, iter,
                    setupVars, appletVars >>

\* The application drops the receiving end of the channel.
DropReceiver ==
    /\ pc \in {"head", "read", "tail"}
    /\ receiver = "alive"
    /\ receiver' = "dropped"
    /\ UNCHANGED << recognizerVars, classifierVars, trackerVars, pc, devices,
                    present, current_finger_count, last_scan, last_config_check,
                    needs_rescan, last_opened, sent, spawned, iter, setupVars, appletVars >>

\* WaitSecs seconds pass.
Wait ==
    /\ pc \in {"head", "read", "tail"}
    /\ last_scan' = Saturate(last_scan + WaitSecs, RESCAN_BACKOFF)
    /\ last_config_check' = Saturate(last_config_check + WaitSecs,
                                     CONFIG_CHECK_INTERVAL)
    /\ elapsed' = MaxTicks * TickMs
    /\ UNCHANGED << state, cfg, device, emitted, fired, cyc, classifierVars,
                    trackerVars, pc, devices, present, current_finger_count,
                    needs_rescan, last_opened, receiver, sent, spawned, iter,
                    setupVars, appletVars >>

\* The reads a device set can give when the fingers only go down and up.
KeyFetches ==
    { f \in [devices -> { FetchOk(b) : b \in UNION { KeyBatches(p) : p \in DevicePaths } }
                          \cup { FetchErr(e) : e \in OtherErrnos \cup {"ENODEV"} }] :
          \A p \in devices : f[p] \in FetchOutcomes(p, present, KeyBatches(p)) }

\* The channel and the applet are left out of the picture.
Unheard == UNCHANGED appletVars

NextLoop ==
    \/ \E new_cfg \in LoopConfigs : LoopHead(new_cfg) /\ Unheard
    \/ \E fetched \in KeyFetches, layout \in WorkspaceLayout, spawn_ok \in BOOLEAN :
           ReadDevices(fetched, layout, spawn_ok) /\ Unheard
    \/ LoopTail /\ Unheard
    \/ \E path \in DevicePaths : Unplug(path) \/ Plug(path)
    \/ DropReceiver
    \/ Wait

SpecLoop == InitLoop /\ [][NextLoop]_vars

(***************************************************************************)
(* gesture_loop with one touchpad that stays plugged in and a receiver     *)
(* that stays alive, the finger it reports moving between the tool-key     *)
(* press and release: the swipes and their dispatch.                       *)
(***************************************************************************)
InitSwipe ==
    /\ InitLoop
    /\ present = {"event0"}

\* The reads of the bound devices when the fingers also move.
SwipeFetches ==
    [devices -> { FetchOk(b) : b \in KeyBatches("event0") \cup PositionBatches }]

NextSwipe ==
    \/ \E new_cfg \in LoopConfigs : LoopHead(new_cfg) /\ Unheard
    \/ \E fetched \in SwipeFetches, layout \in WorkspaceLayout, spawn_ok \in BOOLEAN :
           ReadDevices(fetched, layout, spawn_ok) /\ Unheard
    \/ LoopTail /\ Unheard
    \/ Wait

SpecSwipe == InitSwipe /\ [][NextSwipe]_vars

(***************************************************************************)
(* The recognizer thread and the applet: what gesture_loop sends goes into *)
(* the channel, and the applet's PollGestureEvents takes it out.  One      *)
(* touchpad is plugged in and stays, and the settings file does not        *)
(* change.                                                                 *)
(***************************************************************************)

\* The most messages waiting in the channel.
MaxQueue == 2

\* The GestureMessage values.
GestureMessage == {"ShowPieMenu", "FingersDown", "Reset"}

\* An applet whose flag survives a Reset.
on_gesture_message_keeping(active, msg) ==
    CASE msg = "ShowPieMenu" -> [gesture_active |-> FALSE, spawn_pie_menu |-> TRUE]
      [] msg = "FingersDown" -> [gesture_active |-> TRUE, spawn_pie_menu |-> FALSE]
      [] msg = "Reset"       -> [gesture_active |-> active, spawn_pie_menu |-> FALSE]

\* The arm of PieMenuApplet::update for one received message: the new
\* gesture_active, and whether spawn_pie_menu is called.
on_gesture_message(active, msg) ==
    CASE msg = "ShowPieMenu" -> [gesture_active |-> FALSE, spawn_pie_menu |-> TRUE]
      [] msg = "FingersDown" -> [gesture_active |-> TRUE, spawn_pie_menu |-> FALSE]
      [] msg = "Reset"       -> [gesture_active |-> FALSE, spawn_pie_menu |-> FALSE]

\* The while-let loop over try_recv: the messages of queue from the i-th on
\* are handled one after the other; launches counts the pie menus spawned.
RECURSIVE drain_channel(_, _, _, _)
drain_channel(active, launches, queue, i) ==
    IF i > Len(queue)
    THEN [gesture_active |-> active, launches |-> launches]
    ELSE CHOOSE r \in { drain_channel(h.gesture_active,
                                      launches + (IF h.spawn_pie_menu THEN 1 ELSE 0),
                                      queue, i + 1) :
                            h \in { on_gesture_message(active, queue[i]) } } : TRUE

\* tx.send on the channel's side: the messages of one loop step are queued
\* while the receiver exists.
Heard ==
    /\ channel' = IF receiver = "alive" THEN channel \o sent' ELSE channel
    /\ Len(channel') <= MaxQueue
    /\ UNCHANGED << gesture_active, drained >>

\* Message::PollGestureEvents of PieMenuApplet::update (every 100 ms).
PollGestureEvents ==
    /\ \E r \in { drain_channel(gesture_active, 0, channel, 1) } :
           /\ gesture_active' = r.gesture_active
           /\ drained' = IF channel = << >>
                         THEN drained
                         ELSE Some([last |-> channel[Len(channel)],
                                    launches |-> r.launches])
    /\ channel' = << >>
    /\ UNCHANGED << recognizerVars, classifierVars, trackerVars, loopVars,
                    setupVars >>

InitApplet == InitSwipe

NextApplet ==
    \/ LoopHead(cfg) /\ Heard
    \/ \E fetched \in SwipeFetches, layout \in WorkspaceLayout :
           ReadDevices(fetched, layout, TRUE) /\ Heard
    \/ LoopTail /\ Heard
    \/ PollGestureEvents
    \/ Wait

SpecApplet == InitApplet /\ [][NextApplet]_vars

(***************************************************************************)
(* The same with a touchpad that can be unplugged and plugged in again,    *)
(* and with the progress the program makes: the loop of the thread keeps   *)
(* running, the applet's 100 ms subscription keeps polling, time passes,   *)
(* and a finger that is down on a bound touchpad lifts in the end (its     *)
(* tap-key release is delivered).  The user need not plug a touchpad in    *)
(* again, nor touch it again.                                              *)
(***************************************************************************)
LiveHead == LoopHead(cfg) /\ Heard

\* The reads when the fingers go down only from rest: the tap key is
\* pressed only while the recognizer is Idle, never again during a hold or
\* within the debounce window that follows a lift.
LiveFetches ==
    { f \in KeyFetches :
          \A p \in devices :
              f[p] = FetchOk(<< KeyEvent(tap_key(cfg.finger_count), 1) >>)
                  => state.tag = "Idle" }

LiveRead ==
    \E fetched \in LiveFetches, layout \in WorkspaceLayout :
        ReadDevices(fetched, layout, TRUE) /\ Heard

\* A read step in which a bound touchpad delivers the tap-key release.
LiveRelease ==
    \E fetched \in KeyFetches :
        /\ \E p \in devices :
               fetched[p] = FetchOk(<< KeyEvent(tap_key(cfg.finger_count), 0) >>)
        /\ ReadDevices(fetched, "Horizontal", TRUE) /\ Heard

LiveTail == LoopTail /\ Heard

NextLive ==
    \/ LiveHead
    \/ LiveRead
    \/ LiveTail
    \/ PollGestureEvents
    \/ Wait
    \/ Unplug("event0")
    \/ Plug("event0")

SpecLive ==
    /\ InitSwipe
    /\ [][NextLive]_vars
    /\ WF_vars(LiveHead) /\ WF_vars(LiveRead) /\ WF_vars(LiveTail)
    /\ WF_vars(PollGestureEvents) /\ WF_vars(Wait)
    /\ SF_vars(LiveRelease)

(***************************************************************************)
(* gesture_loop with a settings file that another process rewrites: a      *)
(* periodic reload finds it missing, unparseable, or holding a valid       *)
(* configuration.                                                          *)
(***************************************************************************)
\* PieMenuConfig::default() as GestureConfig::from sees it.
DefaultGestureConfig ==
    [finger_count     |-> 4,
     tap_max_duration |-> 200,
     tap_max_movement |-> 500,
     swipe_threshold  |-> 300,
     swipe_up         |-> "Workspaces",
     swipe_down       |-> "AppLibrary",
     swipe_left       |-> "None",
     swipe_right      |-> "None"]

\* What config.json is at the moment it is read: absent, not parseable as
\* a PieMenuConfig (truncated, half written), or a valid configuration.
ConfigFiles ==
    {[tag |-> "missing"], [tag |-> "malformed"]}
        \cup { [tag |-> "valid", config |-> c] : c \in LoopConfigs }

\* GestureConfig::from(&PieMenuConfig::load()): the defaults when the file
\* does not exist, cannot be read or does not parse.
load(file) ==
    IF file.tag = "valid" THEN file.config ELSE DefaultGestureConfig

ReloadHead == \E file \in ConfigFiles : LoopHead(load(file)) /\ Unheard

NextReload ==
    \/ ReloadHead
    \/ \E fetched \in KeyFetches, layout \in WorkspaceLayout :
           ReadDevices(fetched, layout, TRUE) /\ Unheard
    \/ LoopTail /\ Unheard
    \/ Wait

SpecReload == InitSwipe /\ [][NextReload]_vars

(***************************************************************************)
(* start_gesture_thread on its own: what it returns, and whether it spawns *)
(* the thread, for what the system calls it makes give.                    *)
(***************************************************************************)
\* What the calls give: the paths find_touchpad_paths returns, whether
\* read_dir("/dev/input") succeeds, the first entry with "event" in its
\* name (if any) and what opening it gives, what opening paths[0] gives,
\* and whether the thread can be spawned.
SetupEnvs ==
    [paths      : {<< >>, << "event0" >>, << "event0", "event1" >>},
     read_dir   : {"ok", "err"},
     probe      : {None, Some("event1")},
     probe_open : {"ok", "EACCES", "ENOENT"},
     open       : {"ok", "EACCES", "EBUSY"},
     spawn      : {"ok", "err"}]

\* A setup that takes every failure of the probe for a permission problem.
start_gesture_thread_suspicious(e) ==
    IF e.paths = << >>
    THEN [result |-> IF e.read_dir = "ok" /\ is_some(e.probe) /\ e.probe_open # "ok"
                     THEN PermissionDenied(unwrap(e.probe))
                     ELSE NoTouchpadFound,
          spawned |-> FALSE]
    ELSE IF e.open = "ok"
         THEN [result |-> IF e.spawn = "ok" THEN Ok ELSE ThreadError,
               spawned |-> e.spawn = "ok"]
         ELSE [result |-> IF e.open = "EACCES"
                          THEN PermissionDenied(e.paths[1]) ELSE DeviceError,
               spawned |-> FALSE]

\* start_gesture_thread: the Result returned and whether the thread exists.
start_gesture_thread(e) ==
    IF e.paths = << >>
    THEN [result |-> IF e.read_dir = "ok" /\ is_some(e.probe) /\ e.probe_open = "EACCES"
                     THEN PermissionDenied(unwrap(e.probe))
                     ELSE NoTouchpadFound,
          spawned |-> FALSE]
    ELSE IF e.open = "ok"
         THEN [result |-> IF e.spawn = "ok" THEN Ok ELSE ThreadError,
               spawned |-> e.spawn = "ok"]
         ELSE [result |-> IF e.open = "EACCES"
                          THEN PermissionDenied(e.paths[1]) ELSE DeviceError,
               spawned |-> FALSE]

InitStart ==
    /\ state = Idle
    /\ cfg = [finger_count |-> 4, tap_max_duration |-> TickMs,
              tap_max_movement |-> 1, swipe_threshold |-> 1]
    /\ device = "mt"
    /\ elapsed = 0
    /\ emitted = << >>
    /\ fired = FALSE
    /\ cyc = NoCycle
    /\ dx = 0 /\ dy = 0 /\ k = 1 /\ dir = "unset"
    /\ trk = NewTracker(3) /\ calls = 0
    /\ NoThread
    /\ env \in SetupEnvs
    /\ outcome = NotReturned

\* The application calls start_gesture_thread.
StartGestureThread ==
    /\ outcome = NotReturned
    /\ \E r \in { start_gesture_thread(env) } :
           /\ outcome' = r.result
           /\ pc' = IF r.spawned THEN "spawned" ELSE pc
    /\ UNCHANGED << recognizerVars, classifierVars, trackerVars, devices,
                    present, current_finger_count, last_scan, last_config_check,
                    needs_rescan, last_opened, receiver, sent, spawned, iter,
                    env, appletVars >>

NextStart == StartGestureThread

SpecStart == InitStart /\ [][NextStart]_vars

(***************************************************************************)
(* start_gesture_thread followed by the start of the thread it spawns: the *)
(* call works with the finger count of the shared configuration, the       *)
(* thread with the one it loads from the settings file, and device nodes   *)
(* can come and go in between.                                             *)
(***************************************************************************)
\* The paths found, in the order of the directory listing.
PathsOf(found) == SelectSeq(DeviceOrder, LAMBDA p : p \in found)

\* What the calls of start_gesture_thread give with the device nodes nodes
\* and the finger count of the shared configuration (kept in the record).
ThreadEnvs(nodes, finger_count) ==
    [paths        : {PathsOf(find_touchpad_paths(nodes, finger_count))},
     read_dir     : {"ok"},
     probe        : {None},
     probe_open   : {"ok"},
     open         : {"ok", "EACCES"},
     spawn        : {"ok", "err"},
     finger_count : {finger_count}]

InitThread ==
    /\ state = Idle
    /\ cfg \in LoopConfigs
    /\ device = "legacy"
    /\ elapsed = 0
    /\ emitted = << >>
    /\ fired = FALSE
    /\ cyc = NoCycle
    /\ dx = 0 /\ dy = 0 /\ k = 1 /\ dir = "unset"
    /\ trk = NewTracker(3) /\ calls = 0
    /\ pc = "not_started"
    /\ devices = {}
    /\ present \in SUBSET DevicePaths
    /\ current_finger_count = cfg.finger_count
    /\ last_scan = 0
    /\ last_config_check = 0
    /\ needs_rescan = FALSE
    /\ last_opened = None
    /\ receiver = "alive"
    /\ sent = << >>
    /\ spawned = << >>
    /\ iter = NoIteration
    /\ env \in ThreadEnvs(present, cfg.finger_count)
    /\ outcome = NotReturned
    /\ NoApplet

\* The thread starts running gesture_loop: the configuration is loaded from
\* the settings file, the devices are scanned for with its finger count,
\* and the function returns when none is found.
GestureLoopStart(file) ==
    /\ pc = "spawned"
    /\ cfg' = load(file)
    /\ current_finger_count' = cfg'.finger_count
    /\ devices' = scan_devices(present, cfg'.finger_count)
    /\ pc' = IF devices' = {} THEN "returned" ELSE "head"
    /\ last_scan' = 0
    /\ last_config_check' = 0
    /\ UNCHANGED << state, device, elapsed, emitted, fired, cyc,
                    classifierVars, trackerVars, present, needs_rescan,
                    last_opened, receiver, sent, spawned, iter, setupVars,
                    appletVars >>

\* Device nodes appear or disappear before the thread gets to run.
NodesChange ==
    /\ pc = "spawned"
    /\ \E nodes \in SUBSET DevicePaths : nodes # present /\ present' = nodes
    /\ UNCHANGED << recognizerVars, classifierVars, trackerVars, pc, devices,
                    current_finger_count, last_scan, last_config_check,
                    needs_rescan, last_opened, receiver, sent, spawned, iter,
                    setupVars, appletVars >>

NextThread ==
    \/ StartGestureThread
    \/ \E file \in ConfigFiles : GestureLoopStart(file)
    \/ NodesChange

SpecThread == InitThread /\ [][NextThread]_vars

(***************************************************************************)
(* The movement arithmetic of the tracker over the whole i32 range: one    *)
(* finger whose start and current X come from the ends of the range and    *)
(* from around zero, measured under either build.                          *)
(***************************************************************************)
WidePositions == {I32_MIN, I32_MIN + 1, -1, 0, 1, I32_MAX - 1, I32_MAX}

\* An i32 operation's result: whether it panicked, whether it wrapped, and
\* the value it left (0 after a panic).
Panicked == [panicked |-> TRUE, wrapped |-> FALSE, value |-> 0]

Exact(v) == [panicked |-> FALSE, wrapped |-> FALSE, value |-> v]

Wrapped(v) == [panicked |-> FALSE, wrapped |-> TRUE, value |-> v]

\* a - b on i32: with overflow checks (a debug build) a difference outside
\* the range panics, without them it wraps modulo 2^32.
sub_i32(a, b, overflow_checks) ==
    IF b < 0 /\ a > I32_MAX + b
    THEN IF overflow_checks THEN Panicked
         ELSE Wrapped(((a + I32_MIN) - b) + I32_MIN)
    ELSE IF b > 0 /\ a < I32_MIN + b
         THEN IF overflow_checks THEN Panicked
              ELSE Wrapped(((a - I32_MIN) - b) - I32_MIN)
         ELSE Exact(a - b)

\* i32::abs of the result r of an earlier operation, in the same build.
abs_in_build(r, overflow_checks) ==
    IF r.panicked THEN r
    ELSE IF r.value = I32_MIN
         THEN IF overflow_checks THEN Panicked ELSE Wrapped(I32_MIN)
         ELSE [r EXCEPT !.value = Abs(r.value)]

\* The movement statistics of a tracker t whose only finger is in slot 0
\* and has not moved on Y: the delta current - start, the average of
\* average_movement (the sum is an i64 and the count is 1, so it is the
\* delta), the maximum of max_movement_from_start and the movement
\* check_early_swipe compares with the threshold.
movement_in_build(t, overflow_checks) ==
    LET delta    == sub_i32(t.slots[0].x, unwrap(t.slots[0].start_x),
                            overflow_checks)
        distance == abs_in_build(delta, overflow_checks)
    IN  [delta    |-> delta,
         average  |-> delta,
         max      |-> [distance EXCEPT !.value = Max2(0, @)],
         movement |-> [distance EXCEPT !.value = Max2(@, 0)]]

InitRange ==
    /\ ThreadNotStarted
    /\ state = Idle
    /\ cfg = [finger_count |-> 4, tap_max_duration |-> TickMs,
              tap_max_movement |-> 1, swipe_threshold |-> 1]
    /\ device = "mt"
    /\ elapsed = 0
    /\ emitted = << >>
    /\ fired = FALSE
    /\ cyc = NoCycle
    /\ dx = 0 /\ dy = 0 /\ k = 1 /\ dir = "unset"
    /\ \E sx \in WidePositions, x \in WidePositions :
           trk = [NewTracker(3) EXCEPT
                      !.slots[0] = [active |-> TRUE, x |-> x, y |-> 0,
                                    start_x |-> Some(sx), start_y |-> Some(0)]]
    /\ calls = 0

\* The statistics of the tracker are computed, as a position event or the
\* release makes the recognizer do.
Measure(overflow_checks) ==
    /\ calls = 0
    /\ calls' = 1
    /\ emitted' = << movement_in_build(trk, overflow_checks) >>
    /\ UNCHANGED << state, cfg, device, elapsed, fired, cyc, classifierVars,
                    trk, loopVars, setupVars, appletVars >>

NextRange == \E overflow_checks \in BOOLEAN : Measure(overflow_checks)

SpecRange == InitRange /\ [][NextRange]_vars

(***************************************************************************)
(* Statements about the recognizer (under Spec).                           *)
(***************************************************************************)
TapKeyRelease == << KeyEvent(tap_key(cfg.finger_count), 0) >>

CancelKeyPress == << KeyEvent("BTN_TOOL_QUADTAP", 1) >>

C2_CancelEndsPendingTap ==
    /\ (cfg.finger_count = 3 /\ state.tag = "PendingTrigger")
         => process_event(CancelKeyPress[1], state, cfg, elapsed)
              = Result(Idle, EvTriggerCancelled)
    /\ cyc.cancels >= 1
         => (cyc.cancels = 1 /\ cyc.ups = 0 /\ state = Idle /\ ~fired)

\* A tap was cancelled and the debounce window has since run out.
C2_CancelledAndWindowOver ==
    /\ cfg.finger_count = 3
    /\ cyc.cancels = 1
    /\ cyc.phase = "up" /\ cyc.release = "tap"
    /\ elapsed >= PENDING_TRIGGER_DEBOUNCE
    /\ emitted = << >>

\* C3: in 3-finger mode no event returns FingersUp; the release of a
\* qualifying tap returns no outcome and enters PendingTrigger; and the
\* pending check fires only when at least PENDING_TRIGGER_DEBOUNCE has
\* passed since that release.
C3_TapWaitsForDebounce ==
    /\ [](cfg.finger_count = 3 => \A n \in 1 .. Len(emitted) : emitted[n] # EvFingersUp)
    /\ [](fired => (/\ cfg.finger_count = 3
                    /\ cyc.phase = "up" /\ cyc.release = "tap"
                    /\ elapsed >= PENDING_TRIGGER_DEBOUNCE
                    /\ cyc.ups = 1
                    /\ state = Idle))
    /\ [][(/\ cfg.finger_count = 3
           /\ state.tag = "FingersDown"
           /\ cyc.phase = "down" /\ cyc'.phase = "up"
           /\ cyc'.in_time /\ cyc'.quiet)
            => (/\ state' = PendingTrigger
                /\ emitted' = << >>
                /\ ~fired'
                /\ elapsed' = 0)]_vars

\* The pending check has fired for a tap with position events.
C3_DebouncedTapFired ==
    /\ fired
    /\ cfg.finger_count = 3
    /\ cyc.tracked /\ cyc.quiet /\ cyc.in_time

\* C4 as stated: a cycle in which some finger was at some point before the
\* release further than tap_max_movement from its start gives exactly one
\* SwipeDetected and no FingersUp, also when the finger moved back or its
\* slot became inactive before the release.
C4_SwipeWheneverMovementExceeded ==
    (cyc.phase = "up" /\ ~cyc.quiet) => (cyc.swipes = 1 /\ cyc.ups = 0)

\* C4, amended: a cycle whose release finds the state FingersDown and, among
\* the slots then active with both start coordinates, a finger further than
\* tap_max_movement from its start gives exactly one SwipeDetected, at the
\* release, with the dominant axis of the average movement, and no FingersUp.
C4_SwipeWhenReleaseFindsMovement ==
    (cyc.phase = "up" /\ cyc.release = "moved")
        => (/\ cyc.swipes = 1 /\ cyc.ups = 0
            /\ cyc.dir_ok /\ ~cyc.early
            /\ state = Idle)

\* A release within tap_max_duration has just found such movement and
\* returned a swipe to the right.
C4_MovedReleaseSwiped ==
    /\ cyc.phase = "up" /\ cyc.release = "moved" /\ cyc.in_time
    /\ emitted = << SwipeDetected("Right") >>

\* The slots of two trackers hold different positions.
PositionsDiffer(t, u) ==
    \E i \in SlotIndex : t.slots[i].x # u.slots[i].x \/ t.slots[i].y # u.slots[i].y

ReachesThreshold(t) ==
    \E avg \in {average_movement(t)} :
        Max2(Abs(avg.dx), Abs(avg.dy)) >= cfg.swipe_threshold

\* C5: no position event leaves the state FingersDown with start_captured
\* true and an average movement at or above swipe_threshold, and a
\* SwipeDetected returned before the release leaves Idle; the release that
\* follows changes nothing, so the cycle has exactly one SwipeDetected and
\* no FingersUp.
C5_EarlySwipeEndsCycle ==
    /\ [](cyc.early => (cyc.swipes = 1 /\ cyc.ups = 0 /\ state = Idle /\ ~fired))
    /\ [][(/\ state.tag = "FingersDown" /\ state'.tag = "FingersDown"
           /\ state'.tracker.start_captured
           /\ PositionsDiffer(state.tracker, state'.tracker))
            => ~ReachesThreshold(state'.tracker)]_vars
    /\ [][(cyc.early /\ FetchEvents(TapKeyRelease))
            => (state' = state /\ emitted' = << >> /\ cyc'.release = "ignored")]_vars

\* The release has been processed after an early swipe.
C5_ReleasedAfterEarlySwipe ==
    /\ cyc.early
    /\ cyc.phase = "up"
    /\ cyc.release = "ignored"

\* C6 as stated: a pending trigger ends only in FingersUp (the pending check
\* firing) or in TriggerCancelled, whatever events arrive in the window.
C6_PendingEndsInUpOrCancel ==
    [][(state.tag = "PendingTrigger" /\ state'.tag # "PendingTrigger")
          => (fired' \/ emitted' = << EvTriggerCancelled >>)]_vars

\* C23: a tap-key release processed in FingersDown leaves FingersDown with
\* one classification.  It is a tap (FingersUp and Idle with 4 fingers,
\* PendingTrigger with 3) exactly when the time since the press is at most
\* tap_max_duration and max_movement_from_start at most tap_max_movement;
\* otherwise the state is Idle and SwipeDetected of the dominant axis of
\* average_movement is returned, which is Up after a long hold without
\* movement.
C23_ReleaseClassifiesOnce ==
    state.tag = "FingersDown" =>
        \E r \in { process_event(TapKeyRelease[1], state, cfg, elapsed) },
           avg \in { average_movement(state.tracker) },
           far \in { max_movement_from_start(state.tracker) } :
            /\ r.state.tag # "FingersDown"
            /\ IF elapsed <= cfg.tap_max_duration /\ far <= cfg.tap_max_movement
               THEN /\ ~IsSwipe(r.ev)
                    /\ IF cfg.finger_count = 3
                       THEN r.state = PendingTrigger /\ r.ev = EvNone
                       ELSE r.state = Idle /\ r.ev = EvFingersUp
               ELSE /\ r.state = Idle
                    /\ r.ev = SwipeDetected(DirectionTable(avg.dx, avg.dy))
                    /\ (far = 0 => r.ev = SwipeDetected("Up"))

\* The fingers were held longer than tap_max_duration without moving, and
\* the release has returned SwipeDetected(Up).
C23_LongHoldSwipedUp ==
    /\ cyc.phase = "up" /\ cyc.release = "slow" /\ cyc.tracked /\ cyc.quiet
    /\ cfg.tap_max_movement = 0
    /\ emitted = << SwipeDetected("Up") >>
    /\ state = Idle

\* The axis events a touchpad can send, with values that are positions,
\* tracking ids and slot numbers, good and bad.
AxisEvents ==
    { AbsEvent(a, v) :
          a \in {"ABS_MT_SLOT", "ABS_MT_TRACKING_ID", "ABS_MT_POSITION_X",
                 "ABS_MT_POSITION_Y", "ABS_X", "ABS_Y", "ABS_PRESSURE"},
          v \in Positions \cup BadSlotValues }

\* The starts of tracker t are those of tracker u wherever u has one.
StartsKept(u, t) ==
    \A i \in SlotIndex :
        /\ is_some(u.slots[i].start_x) => t.slots[i].start_x = u.slots[i].start_x
        /\ is_some(u.slots[i].start_y) => t.slots[i].start_y = u.slots[i].start_y

\* C24: within one cycle a slot's start_x and start_y are written once.  No
\* axis event (position, slot selection or tracking id, a lift and a new
\* touch in the same slot included) changes or clears a start that is set,
\* in one event or over a whole batch; a start that appears is the value of
\* a position event; and the tracker of a tap-key press has no start.
C24_StartWrittenOnce ==
    /\ [](state.tag = "FingersDown" =>
            \A e \in AxisEvents :
                \E r \in { process_event(e, state, cfg, elapsed) } :
                    r.state.tag = "FingersDown" =>
                        /\ StartsKept(state.tracker, r.state.tracker)
                        /\ \A i \in SlotIndex :
                              /\ r.state.tracker.slots[i].start_x \in
                                     {state.tracker.slots[i].start_x, Some(e.value)}
                              /\ r.state.tracker.slots[i].start_y \in
                                     {state.tracker.slots[i].start_y, Some(e.value)})
    /\ [][(/\ state.tag = "FingersDown" /\ state'.tag = "FingersDown"
           /\ \A i \in DOMAIN emitted' : emitted'[i] # EvFingersDown)
             => StartsKept(state.tracker, state'.tracker)]_vars
    /\ [](\A i \in SlotIndex :
              \E r \in { process_event(KeyEvent(tap_key(cfg.finger_count), 1),
                                       state, cfg, elapsed) } :
                  /\ is_none(r.state.tracker.slots[i].start_x)
                  /\ is_none(r.state.tracker.slots[i].start_y))

\* A finger has moved away from its start and lifted: its slot is inactive
\* and still holds the start of its first sample.
C24_StartOutlivesLift ==
    /\ state.tag = "FingersDown"
    /\ \E i \in SlotIndex :
           /\ ~state.tracker.slots[i].active
           /\ is_some(state.tracker.slots[i].start_x)
           /\ is_some(state.tracker.slots[i].start_y)
           /\ state.tracker.slots[i].x # unwrap(state.tracker.slots[i].start_x)

\* The slots of tracker t that are active and have both start coordinates.
Ready(t) ==
    { i \in SlotIndex : /\ t.slots[i].active
                        /\ t.slots[i].start_x # None
                        /\ t.slots[i].start_y # None }

\* C25: an event sets start_captured only when, with it, at least
\* min_fingers_for_start slots are active with both start coordinates; and
\* while start_captured is false an event returns SwipeDetected only if it
\* is the one that completes that number (one event makes at most one slot
\* ready), however far the fingers have moved.
C25_CaptureNeedsAllFingers ==
    (state.tag = "FingersDown" /\ ~state.tracker.start_captured) =>
        \A e \in AxisEvents :
            \E r \in { process_event(e, state, cfg, elapsed) } :
                /\ (r.state.tag = "FingersDown" /\ r.state.tracker.start_captured)
                      => Cardinality(Ready(r.state.tracker))
                             >= state.tracker.min_fingers_for_start
                /\ IsSwipe(r.ev)
                      => /\ IsPositionEvent(e)
                         /\ Cardinality(Ready(state.tracker)) + 1
                                >= state.tracker.min_fingers_for_start
                /\ Cardinality(Ready(state.tracker)) + 1
                       < state.tracker.min_fingers_for_start
                      => r.ev = EvNone

\* Fingers have moved as far as the swipe threshold while a finger is still
\* missing: nothing is captured and no swipe was returned.
C25_MovedBeforeCapture ==
    /\ state.tag = "FingersDown"
    /\ ~state.tracker.start_captured
    /\ Cardinality(Ready(state.tracker)) >= 1
    /\ max_movement_from_start(state.tracker) >= cfg.swipe_threshold
    /\ cyc.phase = "down" /\ cyc.swipes = 0 /\ ~cyc.early

\* The outcomes that end a cycle.
IsTerminal(ev) == ev = EvFingersUp \/ ev = EvTriggerCancelled \/ IsSwipe(ev)

\* The key and position events of a touchpad.
CycleEvents ==
    { KeyEvent(key, v) : key \in Keys, v \in {0, 1} }
    \cup { AbsEvent(a, v) : a \in {"ABS_MT_POSITION_X", "ABS_MT_POSITION_Y",
                                   "ABS_X", "ABS_Y"}, v \in Positions }

\* C30: from one FingersDown outcome to the next at most one of FingersUp,
\* SwipeDetected and TriggerCancelled is returned (the FingersUp of the
\* pending check included), and none of them before the first FingersDown:
\* until a tap-key press the state is Idle, in Idle no event returns one of
\* the three and the pending check does not fire, and whatever configuration
\* is in force an event that returns one of them leaves Idle behind.
C30_OneTerminalOutcomePerCycle ==
    /\ cyc.ups + cyc.swipes + cyc.cancels <= 1
    /\ cyc.ups + cyc.swipes + cyc.cancels = 1 => state = Idle
    /\ cyc.phase = "none" => state = Idle
    /\ (fired \/ \E i \in DOMAIN emitted : IsTerminal(emitted[i]))
           => cyc.phase # "none"
    /\ check_pending_trigger(state, elapsed).fired
           => state.tag = "PendingTrigger"
    /\ \A c \in Configs, e \in CycleEvents :
           \E r \in { process_event(e, state, c, elapsed) } :
               /\ IsTerminal(r.ev) => (state.tag # "Idle" /\ r.state = Idle)
               /\ (state.tag = "Idle" /\ r.state.tag # "Idle") => r.ev = EvFingersDown

\* A cycle has returned its one SwipeDetected while the fingers were down;
\* the release and the time after it have added nothing.
C30_NothingAfterTheSwipe ==
    /\ cyc.phase = "up" /\ cyc.early
    /\ cyc.swipes = 1 /\ cyc.ups = 0 /\ cyc.cancels = 0
    /\ state = Idle
    /\ emitted = << >>
    /\ elapsed >= PENDING_TRIGGER_DEBOUNCE

\* The axis events of a touchpad without multitouch slots.
LegacyAxisEvents ==
    { AbsEvent(a, v) : a \in {"ABS_X", "ABS_Y", "ABS_PRESSURE"}, v \in Positions }

\* C39: on a device that reports only ABS_X / ABS_Y no slot but slot 0
\* ever has a start position, so with 3 or 4 fingers required
\* start_captured stays false and no position event returns SwipeDetected;
\* a swipe is returned only by the tap-key release (the fingers moved too
\* far, or were held too long, for a tap).
C39_LegacySwipesOnlyAtRelease ==
    device = "legacy" =>
        /\ state.tag = "FingersDown" =>
               /\ ~state.tracker.start_captured
               /\ state.tracker.min_fingers_for_start \in {3, 4}
               /\ \A i \in SlotIndex \ {0} :
                      /\ state.tracker.slots[i].start_x = None
                      /\ state.tracker.slots[i].start_y = None
               /\ \A e \in LegacyAxisEvents :
                      \E r \in { process_event(e, state, cfg, elapsed) } :
                          r.ev = EvNone /\ r.state.tag = "FingersDown"
        /\ ~cyc.early
        /\ \A i \in DOMAIN emitted :
               IsSwipe(emitted[i])
                   => cyc.phase = "up" /\ cyc.release \in {"moved", "slow"}

\* On a legacy device in 3-finger mode the finger moved past the threshold
\* while the tap key was down, and the swipe came with the release.
C39_LegacySwipeAtRelease ==
    /\ device = "legacy"
    /\ cfg.finger_count = 3
    /\ cyc.phase = "up" /\ cyc.release = "moved" /\ cyc.tracked
    /\ emitted # << >> /\ IsSwipe(emitted[1])
    /\ state = Idle

\* The position events of a multitouch touchpad.
SlotPositionEvents ==
    { AbsEvent(a, v) : a \in {"ABS_MT_POSITION_X", "ABS_MT_POSITION_Y"},
                       v \in Positions }

\* C40: within a cycle start_captured, once true, stays true as long as
\* the tracker lives, also when slots go inactive and fewer than
\* min_fingers_for_start remain; and every position event is then still
\* checked for an early swipe against the average over the slots that are
\* still active (with a start position).
C40_CaptureLatchedForTheCycle ==
    /\ [][(/\ state.tag = "FingersDown" /\ state'.tag = "FingersDown"
           /\ state.tracker.start_captured
           /\ \A i \in DOMAIN emitted' : emitted'[i] # EvFingersDown)
             => state'.tracker.start_captured]_vars
    /\ []((state.tag = "FingersDown" /\ state.tracker.start_captured) =>
            \A e \in SlotPositionEvents :
                \E r \in { process_event(e, state, cfg, elapsed) } :
                \E t \in { write_position(state.tracker, state.tracker.current_slot,
                                          IF e.code = "ABS_MT_POSITION_X"
                                          THEN "x" ELSE "y",
                                          e.value) } :
                \E avg \in { average_movement(t) } :
                    IF Max2(Abs(avg.dx), Abs(avg.dy)) >= cfg.swipe_threshold
                    THEN r = Result(Idle,
                                    SwipeDetected(
                                        calculate_swipe_direction_from_delta(
                                            avg.dx, avg.dy)))
                    ELSE /\ r.ev = EvNone
                         /\ r.state.tag = "FingersDown"
                         /\ r.state.tracker.start_captured)

\* The start was captured with every finger down, and one finger has
\* lifted since: fewer slots than min_fingers_for_start are active, and
\* start_captured is still true.
C40_LatchedAfterLift ==
    /\ state.tag = "FingersDown"
    /\ state.tracker.start_captured
    /\ Cardinality(Ready(state.tracker)) < state.tracker.min_fingers_for_start
    /\ \E i \in SlotIndex :
           ~state.tracker.slots[i].active /\ state.tracker.slots[i].start_x # None

(***************************************************************************)
(* Statements about the direction classifier (under SpecDir).              *)
(***************************************************************************)
\* C7: for all integers dx, dy a call of calculate_swipe_direction_from_delta
\* returns Right if |dx| > |dy| and dx > 0, Left if |dx| > |dy| and dx <= 0,
\* Down if |dx| <= |dy| and dy > 0, Up if |dx| <= |dy| and dy <= 0.
C7_DirectionForAllIntegers ==
    dir # "unset" => dir = DirectionTable(dx, dy)

\* C7, away from i32::MIN: the table is what the call returns whenever
\* neither delta is i32::MIN.
C7_DirectionAwayFromMin ==
    (dir # "unset" /\ dx # I32_MIN /\ dy # I32_MIN) => dir = DirectionTable(dx, dy)

\* A tie on the diagonal has been classified (vertical branch).
C7_TieClassified == dir = "Down" /\ dx = -MaxDelta /\ dy = MaxDelta

C9_CaptureIdempotentOnceLatched ==
    [][(trk.start_captured /\ calls' # calls) => trk' = trk]_vars

\* try_capture_start has been called MaxCalls times on a latched tracker that
\* has fewer fingers with a start than the latch asked for (one has lifted).
C9_CalledAgainAfterLift ==
    /\ calls = MaxCalls
    /\ trk.start_captured
    /\ fingers_with_start(trk) < trk.min_fingers_for_start

\* C10: an ABS_MT_SLOT event whose value is negative or at least MAX_SLOTS
\* leaves current_slot and every slot as they were and returns no outcome,
\* and current_slot is a slot index in every reachable tracker.
C10_BadSlotDropped ==
    /\ [](trk.current_slot \in SlotIndex)
    /\ [][\A val \in BadSlotValues :
              TrackerBadSlot(val) => (trk' = trk /\ emitted' = << EvNone >>)]_vars

\* Such an event has been processed on a tracker that has another slot than
\* the initial one selected and fingers being tracked.
C10_BadSlotProcessed ==
    /\ emitted = << EvNone >>
    /\ trk.current_slot = 2
    /\ trk.start_captured

RECURSIVE Total(_, _)
\* The sum of f[i] over the slots i of S.
Total(S, f) ==
    IF S = {} THEN 0
    ELSE LET i == CHOOSE j \in S : TRUE
         IN  f[i] + Total(S \ {i}, f)

\* a / n rounded toward zero, n > 0: the q of the sign of a with
\* |q| * n <= |a| < (|q| + 1) * n.
TowardZero(a, n) ==
    CHOOSE q \in (0 - Abs(a)) .. Abs(a) :
        /\ q * a >= 0
        /\ Abs(q) * n <= Abs(a)
        /\ Abs(a) < (Abs(q) + 1) * n

\* x - start_x and y - start_y of each slot of t that has both starts.
MovedX(t) ==
    [i \in SlotIndex |-> IF t.slots[i].start_x # None /\ t.slots[i].start_y # None
                         THEN t.slots[i].x - t.slots[i].start_x[1] ELSE 0]

MovedY(t) ==
    [i \in SlotIndex |-> IF t.slots[i].start_x # None /\ t.slots[i].start_y # None
                         THEN t.slots[i].y - t.slots[i].start_y[1] ELSE 0]

\* C26: average_movement is, per axis, the sum of current - start over the
\* slots that are active and have both starts, divided by their number and
\* rounded toward zero, and (0, 0) without such a slot; max_movement_from_start
\* is the largest |dx| or |dy| of those slots, and 0 without one.
C26_MovementStatistics ==
    \E S \in { Ready(trk) }, avg \in { average_movement(trk) },
       far \in { max_movement_from_start(trk) } :
        IF S = {}
        THEN avg = [dx |-> 0, dy |-> 0] /\ far = 0
        ELSE /\ avg.dx = TowardZero(Total(S, MovedX(trk)), Cardinality(S))
             /\ avg.dy = TowardZero(Total(S, MovedY(trk)), Cardinality(S))
             /\ \A i \in S : Abs(MovedX(trk)[i]) <= far /\ Abs(MovedY(trk)[i]) <= far
             /\ \E i \in S : Abs(MovedX(trk)[i]) = far \/ Abs(MovedY(trk)[i]) = far

\* Two or more fingers count, one lifted finger that has moved does not, the
\* total on x is negative and no multiple of the count, and y has moved.
C26_NegativeAverageRounded ==
    /\ Cardinality(Ready(trk)) >= 2
    /\ \E i \in SlotIndex : /\ i \notin Ready(trk)
                            /\ trk.slots[i].start_x # None
                            /\ MovedX(trk)[i] # 0
    /\ Total(Ready(trk), MovedX(trk)) < 0
    /\ Total(Ready(trk), MovedX(trk)) % Cardinality(Ready(trk)) # 0
    /\ average_movement(trk).dy # 0

\* Slot s after a legacy event on the axis wrote val to it.
LegacyWritten(s, axis, val) ==
    IF axis = "ABS_X"
    THEN [s EXCEPT !.x = val, !.active = TRUE,
                   !.start_x = IF s.start_x = None THEN << val >> ELSE s.start_x]
    ELSE [s EXCEPT !.y = val, !.active = TRUE,
                   !.start_y = IF s.start_y = None THEN << val >> ELSE s.start_y]

\* C28: an ABS_X or ABS_Y event processed in FingersDown writes slot 0 only:
\* its x or y, the start of that axis at the first sample, and active; the
\* selected slot stays selected and every other slot is as it was, whatever
\* slot is selected.
C28_LegacyAxesWriteSlotZero ==
    \A axis \in {"ABS_X", "ABS_Y"}, v \in Positions :
        \E r \in { process_event(AbsEvent(axis, v), FingersDown(trk), cfg, elapsed) } :
            r.state.tag = "FingersDown" =>
                /\ r.state.tracker.current_slot = trk.current_slot
                /\ r.state.tracker.slots[0] = LegacyWritten(trk.slots[0], axis, v)
                /\ \A i \in SlotIndex \ {0} :
                       r.state.tracker.slots[i] = trk.slots[i]

\* Slot 1 is selected and was never written, and slot 0 holds a position:
\* a legacy event wrote it while slot 1 was selected.
C28_WrittenWhileOtherSlotSelected ==
    /\ trk.current_slot = 1
    /\ trk.slots[1] = TouchSlotDefault
    /\ trk.slots[0].active
    /\ trk.slots[0].start_x # None
    /\ trk.slots[0].start_y # None
    /\ emitted = << EvNone >>

(***************************************************************************)
(* Statements about gesture_loop (under SpecLoop).                         *)
(***************************************************************************)
\* The steps of the loop, as actions.
HeadStep == \E new_cfg \in LoopConfigs : LoopHead(new_cfg)

ReadStep == pc = "read" /\ pc' \in {"tail", "returned"}

TailStep == pc = "tail" /\ pc' \in {"head", "returned"}

\* The devices whose read failed with ENODEV in the last read step.
Disconnected(it) == { p \in DevicePaths : << p, "ENODEV" >> \in it.failed }

\* process_event on a tap-key press, from the current state.
TapKeyPressNow ==
    process_event(KeyEvent(tap_key(cfg.finger_count), 1), state, cfg, elapsed)

\* C11: a read that fails with ENODEV does not end the loop (it returns only
\* on a failed send to a dropped receiver); the device set is cleared at the
\* end of that iteration; a device is bound only by a scan that finds its
\* node, and only bound devices are read; with the device set empty the head
\* rescans exactly when more than 5 s have passed since the last scan; and a
\* tap-key press starts the same cycle (a fresh tracker and start time)
\* whatever state the disconnect left behind.
C11_DisconnectClearsAndRescans ==
    /\ [][ReadStep /\ Disconnected(iter') # {}
            => /\ needs_rescan' \/ pc' = "returned"
               /\ pc' = "returned" => receiver = "dropped"]_vars
    /\ [][TailStep /\ needs_rescan /\ pc' = "head" => devices' = {}]_vars
    /\ [][ReadStep => iter'.read \subseteq devices]_vars
    /\ [][devices' \ devices \subseteq present]_vars
    /\ [][HeadStep /\ devices = {} /\ ~iter'.changed
            => /\ iter'.rescanned = (last_scan > RESCAN_BACKOFF)
               /\ iter'.rescanned
                      => devices' = scan_devices(present, current_finger_count)]_vars
    /\ [](pc \in {"head", "read", "tail"}
            => TapKeyPressNow
                   = Stamped(FingersDown(NewTracker(cfg.finger_count)),
                             EvFingersDown))

\* A rescan bound a device again after a disconnect had emptied the device
\* set in the middle of a gesture.
C11_ReboundAfterDisconnect ==
    /\ iter.step = "head" /\ iter.rescanned /\ iter.after_clear
    /\ ~iter.changed /\ ~iter.reloaded
    /\ devices # {}
    /\ state.tag = "FingersDown"

\* C12: once the receiver is dropped, the first failed send of any message
\* kind makes gesture_loop return: a step of the loop that passes a message
\* to tx.send while the receiver is dropped ends with the loop returned.
C12_AnyFailedSendReturns ==
    [][(ReadStep \/ TailStep) /\ receiver = "dropped" /\ sent' # << >>
           => pc' = "returned"]_vars

\* C13 as stated: a head step rescans only when the device set is empty as
\* the iteration begins, and leaves a non-empty device set as it is.
C13_RescanOnlyInEmptyIterations ==
    [][HeadStep => /\ iter'.rescanned => devices = {}
                   /\ devices # {} => devices' = devices]_vars

\* C13: a head step rescans only with the device set empty at the rescan
\* test: it was empty as the iteration began, or the finger-count check of
\* this iteration has just cleared it; a non-empty device set changes only
\* by that clearing (and the rescan that follows) or by the clearing in the
\* tail after an ENODEV read.
C13_RescanOnlyWhenEmptyOrCountChanged ==
    /\ [][HeadStep /\ iter'.rescanned => devices = {} \/ iter'.changed]_vars
    /\ [][devices # {} /\ devices' # devices
            => \/ HeadStep /\ iter'.changed /\ iter'.rescanned
               \/ TailStep /\ needs_rescan /\ devices' = {}]_vars

\* A changed finger count has replaced the two bound devices by the one
\* that supports the new count.
C13_BoundSetReplaced ==
    /\ iter.step = "head" /\ iter.rescanned /\ iter.changed
    /\ present = DevicePaths
    /\ devices = {"event0"}

\* C16: a head step that finds a finger_count other than the one the devices
\* were scanned for rescans in that same step, whatever last_scan is, binds
\* the devices that support the new count and goes on with the loop; a head
\* step without such a change leaves bound devices bound and does not
\* rescan; and the configuration a reload loads is the one in force when
\* the devices are read next.
C16_CountChangeRescansAtOnce ==
    /\ [][HeadStep /\ iter'.changed
            => /\ iter'.rescanned
               /\ current_finger_count' = cfg'.finger_count
               /\ devices' = scan_devices(present, cfg'.finger_count)
               /\ pc' = "head"]_vars
    /\ [][HeadStep /\ ~iter'.changed /\ devices # {}
            => /\ ~iter'.rescanned
               /\ devices' = devices
               /\ pc' = "read"]_vars
    /\ [][HeadStep /\ iter'.reloaded => cfg' = unwrap(iter'.loaded)]_vars
    /\ [](pc \in {"read", "tail"} => current_finger_count = cfg.finger_count)

\* A change from four fingers to three has just been loaded and the rescan
\* of the same step has bound both touchpads.
C16_RescannedForNewCount ==
    /\ iter.step = "head" /\ iter.reloaded /\ iter.changed /\ iter.rescanned
    /\ cfg.finger_count = 3
    /\ devices = {"event0", "event1"}

\* C18: any failed read of a bound device, whatever the error, asks for a
\* rescan (needs_rescan is set, so that the tail clears the devices).
C18_AnyReadFailureRescans ==
    [][ReadStep /\ iter'.failed # {} /\ pc' = "tail" => needs_rescan']_vars

\* What the loop does instead: a read step asks for a rescan exactly when
\* one of its reads failed with ENODEV; after a step whose reads failed only
\* otherwise the tail leaves the devices bound; a step whose reads all
\* failed sends nothing and does not end the loop.
C18_OnlyEnodevRescans ==
    /\ [][ReadStep /\ pc' = "tail"
            => (needs_rescan' <=> Disconnected(iter') # {})]_vars
    /\ [][TailStep /\ ~needs_rescan => devices' = devices]_vars
    /\ [][ReadStep /\ iter'.failed # {}
                    /\ iter'.read = { f[1] : f \in iter'.failed }
            => sent' = << >> /\ pc' = "tail"]_vars

\* A read failed with another error than ENODEV and no rescan is asked for.
C18_OtherErrorIgnored ==
    /\ iter.step = "read" /\ pc = "tail"
    /\ << "event0", "EIO" >> \in iter.failed
    /\ ~needs_rescan

RECURSIVE Feed(_, _, _, _, _)
\* The gesture state after the events from the i-th on went through
\* process_event one after the other.
Feed(events, i, st, since, config) ==
    IF i > Len(events) THEN st
    ELSE CHOOSE last \in
             { Feed(events, i + 1, r.state, IF r.stamped THEN 0 ELSE since, config) :
                   r \in { process_event(events[i], st, config, since) } } : TRUE

\* What the first device and the second device of the vector may deliver
\* in one iteration.
FirstDelivers ==
    LET E == { KeyEvent("BTN_TOOL_TRIPLETAP", 1), KeyEvent("BTN_TOOL_TRIPLETAP", 0),
               AbsEvent("ABS_X", 1) }
    IN  { << e, f >> : e \in E, f \in E }

SecondDelivers ==
    { << KeyEvent("BTN_TOOL_TRIPLETAP", 1) >>, << KeyEvent("BTN_TOOL_TRIPLETAP", 0) >>,
      << AbsEvent("ABS_Y", 1) >> }

\* The read step of an iteration in which event0 delivers a and event1 b.
ReadBoth(a, b) ==
    read_devices(devices, 1, ReadStart,
                 [p \in devices |-> IF p = "event0" THEN FetchOk(a) ELSE FetchOk(b)],
                 cfg, receiver, "Horizontal", TRUE)

\* C27: with two devices bound, a read step leaves the one gesture state
\* that process_event gives when it is fed the events of the first device in
\* their order and then those of the second; so a tap-key press from the
\* first followed by a release from the second ends the gesture the press
\* began, and the positions of both devices land in slot 0 of one tracker.
C27_DevicesShareOneState ==
    devices = {"event0", "event1"} =>
        /\ \A a \in FirstDelivers, b \in SecondDelivers :
               \E acc \in { ReadBoth(a, b) } :
                   ~acc.returned => acc.state = Feed(a \o b, 1, state, elapsed, cfg)
        /\ \E acc \in { ReadBoth(<< KeyEvent("BTN_TOOL_TRIPLETAP", 1) >>,
                                 << KeyEvent("BTN_TOOL_TRIPLETAP", 0) >>) } :
               /\ acc.state = PendingTrigger
               /\ acc.out = << EvFingersDown >>
        /\ \E acc \in { ReadBoth(<< KeyEvent("BTN_TOOL_TRIPLETAP", 1), AbsEvent("ABS_X", 1) >>,
                                 << AbsEvent("ABS_Y", 1) >>) } :
               /\ acc.state.tag = "FingersDown"
               /\ acc.state.tracker.slots[0].x = 1
               /\ acc.state.tracker.slots[0].y = 1
               /\ acc.state.tracker.slots[0].start_x = Some(1)
               /\ acc.state.tracker.slots[0].start_y = Some(1)

\* Both devices were read in one step: the first sent the press, the second
\* the release, and the tap is pending.
C27_ReleasedByOtherDevice ==
    /\ iter.step = "read"
    /\ iter.read = {"event0", "event1"}
    /\ iter.failed = {}
    /\ emitted = << EvFingersDown >>
    /\ state = PendingTrigger

(***************************************************************************)
(* Statements about gesture_loop while the fingers move (under SpecSwipe). *)
(***************************************************************************)
\* C14: the head of an iteration, reload included, leaves the gesture state
\* as it was (Idle, FingersDown with its tracker, PendingTrigger) and does
\* not renew the Instant it holds, whatever configuration is loaded.
C14_ReloadKeepsGestureState ==
    [][HeadStep => state' = state /\ elapsed' >= elapsed]_vars

\* A reload changed the finger count while a finger that had moved was
\* being tracked.
C14_ReloadedMidGesture ==
    /\ iter.step = "head" /\ iter.reloaded /\ iter.changed
    /\ state.tag = "FingersDown"
    /\ state.tracker.slots[0].start_x = Some(0)
    /\ state.tracker.slots[0].x = 1

\* The finger count in force when the tap key of the gesture in progress
\* went down: the tracker was created with it.
StartedWith == state.tracker.min_fingers_for_start

\* C15: a finger_count loaded while a gesture is in progress applies only
\* from the next finger-down: the release of the key that started the
\* gesture is processed as it would be with the finger count the gesture
\* started with, the thresholds being those of the newest configuration.
C15_CountChangeWaitsForNextCycle ==
    (pc \in {"head", "read", "tail"} /\ state.tag = "FingersDown")
        => process_event(KeyEvent(tap_key(StartedWith), 0), state, cfg, elapsed)
               = process_event(KeyEvent(tap_key(StartedWith), 0), state,
                               [cfg EXCEPT !.finger_count = StartedWith], elapsed)


\* The one GestureEvent the last read step got from process_event is a swipe.
SwipeRead(it, out) == it.step = "read" /\ Len(out) = 1 /\ IsSwipe(out[1])

\* The directions the desktop uses itself under a workspace layout.
Reserved(layout) ==
    IF layout = "Horizontal" THEN {"Left", "Right"} ELSE {"Up", "Down"}

\* C19: a read step whose swipe has a direction reserved under the layout
\* read for it sends Reset and nothing else, spawns no command and leaves
\* last_opened as it was; and the direction process_event reports is the
\* one the movement of the tracker gives, whatever the layout.
C19_ReservedDirectionsIgnored ==
    /\ [][(ReadStep /\ SwipeRead(iter', emitted')
              /\ emitted'[1][2] \in Reserved(unwrap(iter'.layout)))
            => /\ sent' = << "Reset" >>
               /\ spawned' = << >>
               /\ last_opened' = last_opened
               /\ pc' = "tail"]_vars
    /\ [][(ReadStep /\ SwipeRead(iter', emitted'))
            => LET avg == average_movement(state.tracker)
               IN  emitted'[1][2]
                       = calculate_swipe_direction_from_delta(avg.dx, avg.dy)]_vars

\* With an overlay open, a swipe to the left under a horizontal layout (the
\* direction configured for the pie menu) has been answered with Reset only.
C19_LeftSwipeFiltered ==
    /\ SwipeRead(iter, emitted)
    /\ emitted[1][2] = "Left"
    /\ iter.layout = Some("Horizontal")
    /\ is_some(last_opened)
    /\ sent = << "Reset" >>

\* The command of the overlay recorded as open.
RecordedCommand(opened) == command(unwrap(opened).action)

\* C20 as stated: with an overlay recorded as open any swipe runs the
\* recorded action's command and clears the record; with none recorded a
\* swipe whose configured action has a command runs it and records the
\* action and the direction.
C20_AnySwipeToggles ==
    [][(ReadStep /\ SwipeRead(iter', emitted'))
        => LET direction == emitted'[1][2]
               action    == configured_action(cfg, direction)
           IN  IF is_some(last_opened)
               THEN /\ spawned' = << unwrap(RecordedCommand(last_opened)) >>
                    /\ last_opened' = None
               ELSE is_some(command(action))
                        => /\ spawned' = << unwrap(command(action)) >>
                           /\ last_opened' = Some([action |-> action,
                                                   direction |-> direction])]_vars

\* C20: for a swipe in a direction the layout read for it does not reserve:
\* with an overlay recorded as open the recorded action's command is the one
\* spawned, and the record is cleared, when the spawn succeeds, and nothing
\* changes when it fails; with none recorded and a configured action that
\* has a command, that command is spawned and the action recorded with the
\* direction when the spawn succeeds, and nothing changes when it fails.
\* What is recorded is always one action that has a command.
C20_AllowedSwipeToggles ==
    /\ [][(ReadStep /\ SwipeRead(iter', emitted')
              /\ emitted'[1][2] \notin Reserved(unwrap(iter'.layout)))
            => LET direction == emitted'[1][2]
                   action    == configured_action(cfg, direction)
                   spawn_ok  == unwrap(iter'.spawn_ok)
               IN  IF is_some(last_opened)
                   THEN IF spawn_ok
                        THEN /\ spawned' = << unwrap(RecordedCommand(last_opened)) >>
                             /\ last_opened' = None
                        ELSE /\ spawned' = << >>
                             /\ last_opened' = last_opened
                   ELSE is_some(command(action))
                            => IF spawn_ok
                               THEN /\ spawned' = << unwrap(command(action)) >>
                                    /\ last_opened' = Some([action |-> action,
                                                            direction |-> direction])
                               ELSE /\ spawned' = << >>
                                    /\ last_opened' = None]_vars
    /\ [](is_some(last_opened)
            => /\ unwrap(last_opened).action \in SwipeAction
               /\ unwrap(last_opened).direction \in SwipeDirection
               /\ is_some(RecordedCommand(last_opened)))

\* The overlay opened by a swipe up has been closed by a swipe down: the
\* command spawned is that of the recorded action, not the one configured
\* for the direction.
C20_ClosedByOtherDirection ==
    /\ SwipeRead(iter, emitted)
    /\ emitted[1][2] = "Down"
    /\ spawned = << "cosmic-app-library" >>
    /\ last_opened = None

\* C29: in every state (Idle, FingersDown, PendingTrigger) a tap-key press
\* gives FingersDown with a new start time and a tracker without any sample
\* whose min_fingers_for_start is the configured finger count, and returns
\* FingersDown; and as long as the cycle lasts, reloads included, the
\* tracker's min_fingers_for_start stays what it was.
C29_PressStartsFreshCycle ==
    /\ [](\E r \in { process_event(KeyEvent(tap_key(cfg.finger_count), 1),
                                   state, cfg, elapsed) } :
              /\ r.ev = EvFingersDown
              /\ r.stamped
              /\ r.state.tag = "FingersDown"
              /\ r.state.tracker.min_fingers_for_start = cfg.finger_count
              /\ r.state.tracker.current_slot = 0
              /\ ~r.state.tracker.start_captured
              /\ r.state.tracker.first_event_time = None
              /\ \A i \in SlotIndex :
                     r.state.tracker.slots[i] =
                         [active |-> FALSE, x |-> 0, y |-> 0,
                          start_x |-> None, start_y |-> None])
    /\ [][(/\ state.tag = "FingersDown" /\ state'.tag = "FingersDown"
           /\ \A i \in DOMAIN emitted' : emitted'[i] # EvFingersDown)
             => state'.tracker.min_fingers_for_start
                    = state.tracker.min_fingers_for_start]_vars

\* A cycle began with four fingers configured, a finger has been tracked,
\* and a reload has since set three: the tracker still asks for four.
C29_MinFingersOutlivesReload ==
    /\ state.tag = "FingersDown"
    /\ state.tracker.slots[0].start_x # None
    /\ state.tracker.min_fingers_for_start = 4
    /\ cfg.finger_count = 3

\* The last read step got one swipe in a direction the layout read for it
\* does not reserve, and the spawn of a command, if tried, failed.
FailedSpawnRead(it, out) ==
    /\ SwipeRead(it, out)
    /\ out[1][2] \notin Reserved(unwrap(it.layout))
    /\ it.spawn_ok = Some(FALSE)

\* C34: when the swipe's action has a command and spawning it fails (the
\* plain name and the /usr/bin retry), last_opened is left exactly as it
\* was, both when the swipe would have opened an overlay (nothing
\* recorded) and when it would have closed the recorded one; and no
\* command counts as spawned.
C34_FailedSpawnKeepsRecord ==
    [][(/\ ReadStep
        /\ FailedSpawnRead(iter', emitted')
        /\ is_some(command(action_to_run(last_opened, cfg, emitted'[1][2]))))
          => /\ last_opened' = last_opened
             /\ spawned' = << >>]_vars

\* The overlay opened by a swipe up is still recorded after a swipe down
\* whose command could not be spawned.
C34_CloseFailedRecordKept ==
    /\ FailedSpawnRead(iter, emitted)
    /\ emitted[1][2] = "Down"
    /\ last_opened = Some([action |-> "AppLibrary", direction |-> "Up"])
    /\ spawned = << >>

\* The actions SwipeAction::command gives a command for.
CommandActions == { a \in SwipeAction : is_some(command(a)) }

\* C35: in every state of the loop last_opened is None or holds an action
\* with a command (AppLibrary, Launcher, Workspaces), never
\* SwipeAction::None nor SwipeAction::PieMenu.
C35_RecordHoldsCommandAction ==
    /\ CommandActions = {"AppLibrary", "Launcher", "Workspaces"}
    /\ (last_opened = None \/ unwrap(last_opened).action \in CommandActions)

\* A swipe to the left, configured for the pie menu, has been dispatched
\* with nothing open: ShowPieMenu was sent after the Reset and nothing is
\* recorded.
C35_PieMenuNotRecorded ==
    /\ SwipeRead(iter, emitted)
    /\ emitted[1][2] = "Left"
    /\ iter.layout = Some("Vertical")
    /\ cfg.swipe_left = "PieMenu"
    /\ "ShowPieMenu" \in { sent[i] : i \in DOMAIN sent }
    /\ last_opened = None

\* The events the state st has no use for under config: position and
\* other axis events and the tap-key release outside FingersDown, key
\* events whose value is neither 0 nor 1, keys that are neither the tap
\* key nor the cancel key, and events of other types.
Unrelated(st, config) ==
    LET AllKeys == Keys \cup {"BTN_TOUCH"}
        Watched == {tap_key(config.finger_count)}
                       \cup { key \in Keys : Some(key) = cancel_key(config.finger_count) }
    IN  (IF st.tag \in {"Idle", "PendingTrigger"}
         THEN AxisEvents \cup {KeyEvent(tap_key(config.finger_count), 0)}
         ELSE {})
        \cup { KeyEvent(key, v) : key \in AllKeys, v \in {-1, 2} }
        \cup { KeyEvent(key, v) : key \in AllKeys \ Watched, v \in {0, 1} }
        \cup {OtherEvent}

\* C37: an event the current state has no use for leaves the state as it
\* is, keeps the Instant it holds, and returns None: an axis event or a
\* tap-key release in Idle or PendingTrigger, a key event with a value
\* other than 0 and 1, another key, another type of event.
C37_UnrelatedEventsIgnored ==
    \A ev \in Unrelated(state, cfg) :
        process_event(ev, state, cfg, elapsed) = Result(state, EvNone)

\* A read step has found the recognizer Idle and left it Idle without any
\* outcome: whatever the touchpad delivered (a position, a release, a key
\* not watched) was ignored.
C37_IgnoredWhileIdle ==
    /\ iter.step = "read"
    /\ iter.read = {"event0"} /\ iter.failed = {}
    /\ state = Idle
    /\ emitted = << >>
    /\ sent = << >>

\* C38: in 3-finger mode a BTN_TOOL_QUADTAP press in Idle or FingersDown
\* changes nothing and returns None; so when it comes before the release
\* of a quick, still 3-finger tap, the release enters PendingTrigger all
\* the same, and the pending check fires FingersUp once the debounce
\* window has passed, not before.
C38_FourthFingerPressIgnored ==
    cfg.finger_count = 3 =>
        /\ state.tag \in {"Idle", "FingersDown"}
               => process_event(KeyEvent("BTN_TOOL_QUADTAP", 1), state, cfg, elapsed)
                      = Result(state, EvNone)
        /\ (state.tag = "FingersDown" /\ ReleaseFinds(state, cfg, elapsed) = "tap")
               => /\ Feed(<< KeyEvent("BTN_TOOL_QUADTAP", 1),
                              KeyEvent("BTN_TOOL_TRIPLETAP", 0) >>,
                           1, state, elapsed, cfg) = PendingTrigger
                  /\ \A d \in {0, TickMs, MaxTicks * TickMs} :
                         check_pending_trigger(PendingTrigger, d)
                             = IF d >= PENDING_TRIGGER_DEBOUNCE
                               THEN [state |-> Idle, fired |-> TRUE]
                               ELSE [state |-> PendingTrigger, fired |-> FALSE]

\* In 3-finger mode the pending trigger of a tap has fired at the end of an
\* iteration: ShowPieMenu was sent and the recognizer is Idle again.
C38_PendingFiredInThreeFingerMode ==
    /\ cfg.finger_count = 3
    /\ iter.step = "tail"
    /\ sent = << "ShowPieMenu" >>
    /\ state = Idle
    /\ elapsed >= PENDING_TRIGGER_DEBOUNCE

(***************************************************************************)
(* Statements about the channel and the applet (under SpecApplet).         *)
(***************************************************************************)

\* The messages a read step may send for the outcomes it got from
\* process_event, with what was recorded as open before the step.
MessagesFor(out, opened, config, layout, msgs) ==
    CASE out = << >>                     -> msgs = << >>
      [] out = << EvFingersDown >>       -> msgs = << "FingersDown" >>
      [] out = << EvFingersUp >>         -> msgs = << "ShowPieMenu" >>
      [] out = << EvTriggerCancelled >>  -> msgs = << "Reset" >>
      [] OTHER ->
             /\ Len(out) = 1 /\ IsSwipe(out[1])
             /\ IF /\ direction_allowed(layout, out[1][2])
                   /\ action_to_run(opened, config, out[1][2]) = "PieMenu"
                THEN msgs = << "Reset", "ShowPieMenu" >>
                ELSE msgs = << "Reset" >>

\* C21: a read step sends FingersDown for a FingersDown outcome, ShowPieMenu
\* for FingersUp, Reset for TriggerCancelled, Reset and then ShowPieMenu
\* (only when the resolved action is PieMenu) for SwipeDetected, and nothing
\* for None; the end of an iteration sends ShowPieMenu exactly when the
\* debounced tap fires, and the head sends nothing; and the applet's
\* gesture_active is true exactly when the last message it drained was
\* FingersDown.
C21_OutcomesBecomeMessages ==
    /\ [][ReadStep => MessagesFor(emitted', last_opened, cfg, unwrap(iter'.layout), sent')]_vars
    /\ [][TailStep => /\ sent' = IF state = PendingTrigger
                                     /\ elapsed >= PENDING_TRIGGER_DEBOUNCE
                                  THEN << "ShowPieMenu" >> ELSE << >>
                      /\ fired' <=> sent' # << >>]_vars
    /\ [][HeadStep => sent' = << >>]_vars
    /\ [](gesture_active <=> (is_some(drained) /\ unwrap(drained).last = "FingersDown"))

\* A swipe whose action is PieMenu has sent Reset and ShowPieMenu, and the
\* applet has drained both: the flag is down and one pie menu was launched.
C21_SwipeShownByApplet ==
    /\ SwipeRead(iter, emitted)
    /\ sent = << "Reset", "ShowPieMenu" >>
    /\ channel = << >>
    /\ drained = Some([last |-> "ShowPieMenu", launches |-> 1])
    /\ ~gesture_active

(***************************************************************************)
(* Statements about progress (under SpecLive).                             *)
(***************************************************************************)

\* The last message the thread has sent: the last one waiting in the
\* channel, or else the last one the applet drained.
LastMessage ==
    IF channel # << >> THEN channel[Len(channel)]
    ELSE IF drained # None THEN drained[1].last
    ELSE "none"

\* C31 as stated: once FingersDown is the last message sent, a Reset or a
\* ShowPieMenu follows in the end, also when the touchpad is disconnected
\* while the state is FingersDown.
C31_FeedbackEndsAfterLift ==
    (LastMessage = "FingersDown") ~> (LastMessage # "FingersDown")

\* The touchpad was unplugged with the fingers down: the read failed with
\* ENODEV, the device set is cleared, the state is still FingersDown, and
\* the applet's flag is on with nothing in the channel.
C31_FeedbackLeftOn ==
    /\ state.tag = "FingersDown"
    /\ devices = {} /\ present = {}
    /\ iter.step = "tail" /\ iter.cleared
    /\ gesture_active
    /\ channel = << >>

(***************************************************************************)
(* Statements about the reload of a rewritten settings file (under         *)
(* SpecReload).                                                            *)
(***************************************************************************)
\* The reload of this iteration found no usable file (LoopConfigs holds no
\* configuration equal to the defaults, so only a failed load gives them).
FailedLoad(it) ==
    it.step = "head" /\ it.reloaded /\ it.loaded = Some(DefaultGestureConfig)

\* C32 as stated: a periodic reload that reads the settings file while it
\* is missing, truncated or unparseable leaves the active configuration as
\* it was (finger count, thresholds and swipe bindings) and does not clear
\* the bound devices.
C32_FailedReloadKeepsConfig ==
    [][FailedLoad(iter') =>
           /\ cfg' = cfg
           /\ current_finger_count' = current_finger_count
           /\ devices' = devices]_vars

\* C32: a 3-finger configuration was active with a touchpad bound, the
\* reload found no usable file, and now the defaults are active (4
\* fingers) and the devices were dropped and scanned for again.
C32_DefaultsReplacedConfig ==
    /\ FailedLoad(iter)
    /\ iter.changed
    /\ iter.rescanned
    /\ cfg = DefaultGestureConfig
    /\ current_finger_count = 4

(***************************************************************************)
(* Statements about the start of the thread (under SpecThread).            *)
(***************************************************************************)
\* C33 as stated: when start_gesture_thread has returned Ok(()), the loop
\* it spawned scans with the finger count start_gesture_thread used, binds
\* at least one device and keeps running instead of returning at once.
C33_OkMeansLoopRuns ==
    (outcome = Ok /\ pc \in {"head", "returned"})
        => /\ current_finger_count = env.finger_count
           /\ devices # {}
           /\ pc = "head"

\* C33: start_gesture_thread found a 3-finger touchpad that is still
\* there and returned Ok(()), and the thread has returned without devices
\* because it scanned for 4 fingers.
C33_ThreadGoneAfterOk ==
    /\ outcome = Ok
    /\ pc = "returned"
    /\ env.finger_count = 3
    /\ env.paths = << "event1" >>
    /\ present = {"event1"}
    /\ current_finger_count = 4

(***************************************************************************)
(* Statements about the arithmetic over the i32 range (under SpecRange).   *)
(***************************************************************************)
\* C36 as stated: for all i32 position values the tracker's arithmetic
\* stays in the i32 range: current - start, its absolute value and the
\* averaged delta neither panic nor wrap.
C36_ArithmeticStaysInRange ==
    \A i \in DOMAIN emitted :
        \A part \in {"delta", "average", "max", "movement"} :
            ~emitted[i][part].panicked /\ ~emitted[i][part].wrapped

\* C36: a finger that started at -1 is at i32::MAX; without overflow
\* checks its delta has wrapped to i32::MIN, a movement to the left, and
\* its distance has wrapped too.
C36_DeltaWrapped ==
    /\ calls = 1
    /\ trk.slots[0].start_x = Some(-1)
    /\ trk.slots[0].x = I32_MAX
    /\ emitted[1].delta = Wrapped(I32_MIN)
    /\ emitted[1].movement.wrapped

(***************************************************************************)
(* Statements about start_gesture_thread (under SpecStart).                *)
(***************************************************************************)
\* C17: once start_gesture_thread has returned, what it returned is
\* NoTouchpadFound when no path was found and the probe met no EACCES,
\* PermissionDenied with the path whose open met EACCES (the probed entry
\* when no path was found, the first path otherwise), DeviceError when the
\* first path fails to open otherwise, ThreadError when the spawn fails,
\* and Ok in the one remaining case; the thread exists exactly when Ok was
\* returned, and nothing has been sent.
C17_SetupErrorsAreTyped ==
    outcome # NotReturned =>
        LET probe_denied == /\ env.read_dir = "ok" /\ is_some(env.probe)
                            /\ env.probe_open = "EACCES"
        IN  /\ outcome = NoTouchpadFound <=> (env.paths = << >> /\ ~probe_denied)
            /\ (env.paths = << >> /\ probe_denied)
                   => outcome = PermissionDenied(unwrap(env.probe))
            /\ (env.paths # << >> /\ env.open = "EACCES")
                   => outcome = PermissionDenied(env.paths[1])
            /\ outcome = DeviceError
                   <=> (env.paths # << >> /\ env.open \notin {"ok", "EACCES"})
            /\ outcome = ThreadError
                   <=> (env.paths # << >> /\ env.open = "ok" /\ env.spawn = "err")
            /\ outcome = Ok <=> pc = "spawned"
            /\ outcome = Ok => (env.paths # << >> /\ env.open = "ok" /\ env.spawn = "ok")
            /\ pc \in {"not_started", "spawned"}
            /\ sent = << >>

\* start_gesture_thread found no path and its probe of an entry that does
\* not open for another reason than permissions gave NoTouchpadFound.
C17_ProbeFailedOtherwise ==
    /\ outcome = NoTouchpadFound
    /\ env.read_dir = "ok" /\ is_some(env.probe) /\ env.probe_open = "ENOENT"

====
